---- MODULE Spec2Model ----
(***************************************************************************)
(* TradingSystem: the risk gate (core/risk_manager.py), the market         *)
(* classifier (config/settings.py) and the task scheduler                  *)
(* (core/scheduler.py) as state machines.                                  *)
(*                                                                         *)
(* Conventions.  A ticker is a sequence of one-character strings, so that  *)
(* str.startswith, str.isdigit and len are computed and not assumed.       *)
(* Money is an integer number of currency units; a ratio r compared with   *)
(* a limit of p percent is compared as 100 * numerator > p * denominator,  *)
(* which agrees with the float comparison for every amount of the model.   *)
(* An optional argument is a record with a field `given`; given = FALSE    *)
(* is Python's None.                                                       *)
(***************************************************************************)
EXTENDS Integers, Sequences, FiniteSets, TLC

VARIABLES
    today,              \* date.today(): the calendar date the clock shows
    last_reset_date,    \* RiskManager.last_reset_date
    daily_trades,       \* RiskManager.daily_trades
    daily_buy_amount,   \* RiskManager.daily_buy_amount
    daily_sell_amount,  \* RiskManager.daily_sell_amount
    trade_history,      \* RiskManager.trade_history
    call,               \* the most recent call of the sequential caller and what it returned
    thr,                \* the concurrent callers: position, order in hand, local values
    clock,              \* datetime.now() as the scheduler sees it: the day, and whether
                        \* the trigger time of that day has passed
    tasks,              \* TaskScheduler.tasks
    jobs,               \* schedule.jobs: the jobs registered with the clock, in order
    running,            \* TaskScheduler.running
    loops,              \* the clock-loop threads that start() has created
    on_signal_callback, \* TaskScheduler.on_signal_callback is set
    on_error_callback,  \* TaskScheduler.on_error_callback is set
    active_strategies,  \* StrategyEngine.active_strategies: its keys, in insertion order
    files,              \* the csv files of DataCache in the cache directory, by path
    metadata,           \* DataCache.metadata, as saved to metadata.json
    us_files,           \* the csv files of USDataCache, one per ticker
    us_metadata,        \* USDataCache.metadata
    dm,                 \* the DataManager: its cache switch and its three adapters
    kelly,              \* the KellyCalculator: its statistics, limits and trade_history
    strategy            \* the composite strategy object: its switches, position and order

riskVars == <<today, last_reset_date, daily_trades, daily_buy_amount,
              daily_sell_amount, trade_history>>
gateVars == <<today, last_reset_date, daily_trades, daily_buy_amount,
              daily_sell_amount, trade_history, call, thr>>
schedVars == <<clock, tasks, jobs, running, loops, on_signal_callback,
               on_error_callback, active_strategies>>
cacheVars == <<files, metadata, us_files, us_metadata>>
serviceVars == <<dm, kelly, strategy>>
vars == <<today, last_reset_date, daily_trades, daily_buy_amount,
          daily_sell_amount, trade_history, call, thr,
          clock, tasks, jobs, running, loops, on_signal_callback,
          on_error_callback, active_strategies,
          files, metadata, us_files, us_metadata, dm, kelly, strategy>>

(***************************************************************************)
(* Bounds of the model.                                                    *)
(***************************************************************************)
MaxDay == 1
MaxHistory == 21

(***************************************************************************)
(* Risk parameters, RiskManager.__init__.                                  *)
(***************************************************************************)
max_single_amount == 50000
max_single_amount_hk == 400000
max_daily_trades == 20
max_position_ratio_pct == 30
max_total_position_pct == 90

(***************************************************************************)
(* Strings.                                                                *)
(***************************************************************************)
Digits == {"0", "1", "2", "3", "4", "5", "6", "7", "8", "9"}

StartsWith(s, p) ==
    /\ Len(s) >= Len(p)
    /\ \A i \in 1..Len(p) : s[i] = p[i]

IsDigit(s) == Len(s) > 0 /\ \A i \in 1..Len(s) : s[i] \in Digits

RECURSIVE LStrip(_)
LStrip(s) == IF s # <<>> /\ Head(s) = " " THEN LStrip(Tail(s)) ELSE s

RECURSIVE RStrip(_)
RStrip(s) ==
    IF s # <<>> /\ s[Len(s)] = " " THEN RStrip(SubSeq(s, 1, Len(s) - 1)) ELSE s

Strip(s) == RStrip(LStrip(s))

HKPrefix == <<"H", "K", ".">>

(***************************************************************************)
(* config/settings.py get_market_type                                     *)
(***************************************************************************)
\* get_market_type that takes six digits for a Hong Kong code as well.
get_market_type_wide(stock_code) ==
    LET code == Strip(stock_code) IN
    IF StartsWith(code, HKPrefix) THEN "HK"
    ELSE IF IsDigit(code) /\ 4 <= Len(code) /\ Len(code) <= 6 THEN "HK"
    ELSE "US"

get_market_type(stock_code) ==
    LET code == Strip(stock_code) IN
    IF StartsWith(code, HKPrefix) THEN "HK"
    ELSE IF IsDigit(code) /\ 4 <= Len(code) /\ Len(code) <= 5 THEN "HK"
    ELSE IF IsDigit(code) /\ Len(code) = 6 THEN "A"
    ELSE "US"

(***************************************************************************)
(* Inputs of the risk gate.                                                *)
(***************************************************************************)
TSLA == <<"T", "S", "L", "A">>
HK0700 == <<"H", "K", ".", "0", "0", "7", "0", "0">>
Bare0700 == <<"0", "7", "0", "0">>

Tickers == {TSLA, HK0700, Bare0700}
Directions == {"BUY", "SELL"}
Prices == {100, 1000, 5000}
Quantities == {50, 100}

Orders ==
    [stock_code : Tickers, direction : Directions, price : Prices, qty : Quantities]

NoneArg == [given |-> FALSE]

Account(total, cash, avl) ==
    [given |-> TRUE, total_assets |-> total, cash |-> cash, avl_withdrawal_cash |-> avl]

Accounts == {NoneArg, Account(100000, 50000, 50000), Account(0, 0, 8000)}

\* A position without the key can_sell_qty is a record without that field.
PosHK == [code |-> HK0700, qty |-> 100, market_val |-> 40000]
PosTSLA == [code |-> TSLA, qty |-> 100, can_sell_qty |-> 50, market_val |-> 44000]

PositionArgs ==
    {NoneArg, [given |-> TRUE, list |-> <<>>], [given |-> TRUE, list |-> <<PosHK, PosTSLA>>]}

\* The order the caller places again and again.
StandingOrder == [stock_code |-> TSLA, direction |-> "BUY", price |-> 100, qty |-> 50]
StandingSell == [stock_code |-> TSLA, direction |-> "SELL", price |-> 100, qty |-> 50]

(***************************************************************************)
(* RiskManager.check_order, lines 91-199, after the daily reset of line 89.*)
(* trades is self.daily_trades as check 2 reads it.                        *)
(***************************************************************************)
Amount(order) == order.price * order.qty

Reject(rule, kind, shown) ==
    [is_pass |-> FALSE, rule |-> rule, kind |-> kind, shown |-> shown]

Pass == [is_pass |-> TRUE, rule |-> 0, kind |-> "pass", shown |-> <<>>]

IsHK(stock_code) == StartsWith(stock_code, HKPrefix)

\* Mutant: one cap, the larger one, for every ticker.
MaxAmountOneCap(stock_code) == max_single_amount_hk

MaxAmount(stock_code) ==
    IF IsHK(stock_code) THEN max_single_amount_hk ELSE max_single_amount

Available(account_info) ==
    IF account_info.cash = 0 THEN account_info.avl_withdrawal_cash
    ELSE account_info.cash

RECURSIVE SumMarketVal(_)
SumMarketVal(list) ==
    IF list = <<>> THEN 0 ELSE Head(list).market_val + SumMarketVal(Tail(list))

\* Mutant: the first position of the list, whatever its code.
FirstMatchAnyCode(list, stock_code) == IF list = <<>> THEN 0 ELSE 1

\* The index of the first position whose code is stock_code, 0 when there is none.
FirstMatch(list, stock_code) ==
    LET hits == {i \in 1..Len(list) : list[i].code = stock_code} IN
    IF hits = {} THEN 0 ELSE CHOOSE i \in hits : \A j \in hits : i <= j

CanSellQty(pos) ==
    IF "can_sell_qty" \in DOMAIN pos THEN pos.can_sell_qty ELSE pos.qty

\* Check 1 (lines 106-117): the amount of one order.
Check1(order) ==
    IF Amount(order) > MaxAmount(order.stock_code)
    THEN Reject(1, "single_amount", <<Amount(order), MaxAmount(order.stock_code)>>)
    ELSE Pass

\* Check 2 (lines 119-126): the number of trades of the day.
Check2(trades) ==
    IF trades >= max_daily_trades
    THEN Reject(2, "daily_trades", <<trades, max_daily_trades>>)
    ELSE Pass

\* Check 3 (lines 128-140): the cash of a BUY.
Check3(order, account_info) ==
    IF order.direction = "BUY" /\ account_info.given
         /\ Amount(order) > Available(account_info)
    THEN Reject(3, "insufficient_funds", <<Amount(order), Available(account_info)>>)
    ELSE Pass

\* Check 4 (lines 142-169): the position ratios of a BUY.
Check4(order, account_info, positions) ==
    IF order.direction = "BUY" /\ account_info.given /\ positions.given
         /\ account_info.total_assets > 0
    THEN LET amount == Amount(order)
             total_assets == account_info.total_assets
             current_position_value == SumMarketVal(positions.list)
         IN
         IF 100 * amount > max_position_ratio_pct * total_assets
         THEN Reject(4, "position_ratio", <<amount, total_assets>>)
         ELSE IF 100 * (current_position_value + amount)
                   > max_total_position_pct * total_assets
         THEN Reject(4, "total_position", <<current_position_value + amount, total_assets>>)
         ELSE Pass
    ELSE Pass

\* Check 5 (lines 171-194): the holding of a SELL.
Check5(order, positions) ==
    IF order.direction = "SELL" /\ positions.given
    THEN LET k == FirstMatch(positions.list, order.stock_code) IN
         IF k = 0 THEN Reject(5, "no_position", <<order.stock_code>>)
         ELSE IF order.qty > CanSellQty(positions.list[k])
         THEN Reject(5, "insufficient_qty", <<order.qty, CanSellQty(positions.list[k])>>)
         ELSE Pass
    ELSE Pass

\* The result of the first check of the pipeline that does not pass (each check
\* that fails returns at once), Pass when every one passes.
RECURSIVE FirstReject(_)
FirstReject(checks) ==
    IF checks = <<>> THEN Pass
    ELSE IF ~Head(checks).is_pass THEN Head(checks)
    ELSE FirstReject(Tail(checks))

\* Mutant: the daily count is checked before the amount.
CheckOrderCountFirst(order, account_info, positions, trades) ==
    FirstReject(<<Check2(trades), Check1(order), Check3(order, account_info),
                  Check4(order, account_info, positions), Check5(order, positions)>>)

\* Mutant: the daily count may reach the cap and go one beyond it.
CheckOrderOffByOne(order, account_info, positions, trades) ==
    FirstReject(<<Check1(order),
                  IF trades > max_daily_trades
                  THEN Reject(2, "daily_trades", <<trades, max_daily_trades>>) ELSE Pass,
                  Check3(order, account_info),
                  Check4(order, account_info, positions), Check5(order, positions)>>)

\* Mutant: the cash of a BUY is not checked.
CheckOrderNoCash(order, account_info, positions, trades) ==
    FirstReject(<<Check1(order), Check2(trades),
                  Check4(order, account_info, positions), Check5(order, positions)>>)

CheckOrder(order, account_info, positions, trades) ==
    FirstReject(<<Check1(order), Check2(trades), Check3(order, account_info),
                  Check4(order, account_info, positions), Check5(order, positions)>>)

(***************************************************************************)
(* RiskManager._check_and_reset_daily and reset_daily_stats: the counters  *)
(* an entry point works on once the date has been looked at.               *)
(***************************************************************************)
Stale == today # last_reset_date

\* Mutant: the date is compared with itself, so the counter is always cleared.
TradesAlwaysCleared == IF today = today THEN 0 ELSE daily_trades

\* Mutant: the counter is kept over the change of date.
TradesNeverCleared == daily_trades

TradesAfterReset == IF Stale THEN 0 ELSE daily_trades
BuyAfterReset == IF Stale THEN 0 ELSE daily_buy_amount
SellAfterReset == IF Stale THEN 0 ELSE daily_sell_amount

\* What get_daily_stats returns.
DailyStats ==
    [trades |-> TradesAfterReset, buy_amount |-> BuyAfterReset,
     sell_amount |-> SellAfterReset, total_amount |-> BuyAfterReset + SellAfterReset]

(***************************************************************************)
(* The task scheduler (core/scheduler.py), the strategy engine it drives   *)
(* and the clock library it registers its jobs with.  Every job is         *)
(* registered with every().day.at(time_str), and one trigger time is       *)
(* modelled: the clock is the day and whether that day's trigger time has  *)
(* passed.                                                                 *)
(***************************************************************************)
MaxJobs == 2

\* The names StrategyEngine.__init__ registers, and the names tasks are added with.
strategy_classes == {"TSF-LSMA", "MACD", "RSI", "MomentumSentiment"}
SchedStrategies == {"TSF-LSMA", "MACD", "Grid"}
SchedStocks == {TSLA, HK0700}
CustomNames == {<<"heartbeat">>}

\* f"signal_{stock_code}_{time_str.replace(':', '')}" with time_str "16:10"
SignalTaskName(stock_code) == <<"signal", stock_code, "1610">>

\* What the provider fetch of a signal job can do, what analyze() of one
\* strategy can return, and what a custom callback can do.
Fetches == {"df", "none", "raise"}
Analyses == {"BUY", "SELL", "HOLD", "NONE"}
CustomOutcomes == {"ok", "raise"}
NoAnalysis == [n \in strategy_classes |-> "NONE"]
SignalEnvs ==
    {[fetch |-> "df", analysis |-> [n \in strategy_classes |->
                                      IF n = "TSF-LSMA" THEN a
                                      ELSE IF n = "MACD" THEN b ELSE "NONE"]] :
        a \in Analyses, b \in Analyses}
    \cup {[fetch |-> f, analysis |-> NoAnalysis] : f \in {"none", "raise"}}

\* The first run the clock library computes for a job at registration, and the
\* next run it computes after a run: the coming trigger time.
NextTrigger == IF clock.past THEN clock.day + 1 ELSE clock.day

\* Job.should_run: datetime.now() >= next_run
ShouldRun(job) == clock.day > job.next_run \/ (clock.day = job.next_run /\ clock.past)

\* sorted(runnable_jobs): the due jobs by next run, registration order among equals.
RECURSIVE SortedDue(_, _)
SortedDue(idxs, js) ==
    IF idxs = {} THEN <<>>
    ELSE LET first == CHOOSE i \in idxs : \A j \in idxs :
                          \/ js[i].next_run < js[j].next_run
                          \/ (js[i].next_run = js[j].next_run /\ i <= j)
         IN  <<first>> \o SortedDue(idxs \ {first}, js)

RunnableJobs == SortedDue({i \in 1..Len(jobs) : ShouldRun(jobs[i])}, jobs)

\* StrategyEngine.activate_strategy: the key f"{stock_code}_{strategy_name}"
StrategyKey(stock_code, strategy_name) == <<stock_code, strategy_name>>

SeqRange(q) == {q[i] : i \in 1..Len(q)}

activate_strategy(active, stock_code, strategy_name) ==
    IF StrategyKey(stock_code, strategy_name) \in SeqRange(active) THEN active
    ELSE Append(active, StrategyKey(stock_code, strategy_name))

\* StrategyEngine.generate_signal: every active strategy of the stock, in
\* order, contributes the signal its analyze() returned, if it returned one.
RECURSIVE generate_signal(_, _, _)
generate_signal(active, stock_code, analysis) ==
    IF active = <<>> THEN <<>>
    ELSE LET key == Head(active)
             rest == generate_signal(Tail(active), stock_code, analysis)
         IN  IF key[1] = stock_code /\ analysis[key[2]] # "NONE"
             THEN <<[type |-> analysis[key[2]], stock |-> stock_code,
                     strategy |-> key[2]]>> \o rest
             ELSE rest

NoLoop == [pc |-> "none", polled |-> <<>>, ran |-> <<>>]
\* The threads start() can have alive at once.
LoopIds == {"loop1"}

(***************************************************************************)
(* Numbers.  The floats of the position sizer are taken as exact           *)
(* fractions [n, d] with d > 0, in lowest terms.                           *)
(***************************************************************************)
Abs(x) == IF x < 0 THEN -x ELSE x

RECURSIVE GCD(_, _)
GCD(a, b) == IF b = 0 THEN a ELSE GCD(b, a % b)

Rat(n, d) ==
    LET g == GCD(Abs(n), Abs(d))
        sgn == IF d < 0 THEN -1 ELSE 1
    IN  [n |-> sgn * (n \div g), d |-> sgn * (d \div g)]

RAdd(a, b) ==
    LET g == GCD(a.d, b.d)
    IN  Rat(a.n * (b.d \div g) + b.n * (a.d \div g), (a.d \div g) * b.d)
RSub(a, b) == RAdd(a, [n |-> -b.n, d |-> b.d])
RMul(a, b) ==
    LET x == Rat(a.n, b.d)
        y == Rat(b.n, a.d)
    IN  Rat(x.n * y.n, x.d * y.d)
\* a / b for b # 0
RDiv(a, b) == RMul(a, Rat(b.d, b.n))
RLess(a, b) == a.n * b.d < b.n * a.d
RLeq(a, b) == a.n * b.d <= b.n * a.d
RZero == Rat(0, 1)
ROne == Rat(1, 1)

\* KellyCalculator.__init__: lines 21-57.  updated tells whether
\* update_statistics has run on the object.
NewKelly(initial_win_rate, initial_avg_win, initial_avg_loss, kelly_fraction, max_position, min_position) ==
    [win_rate |-> initial_win_rate, avg_win |-> initial_avg_win,
     avg_loss |-> initial_avg_loss, kelly_fraction |-> kelly_fraction,
     max_position |-> max_position, min_position |-> min_position,
     trade_history |-> <<>>, updated |-> FALSE]

\* KellyCalculator() with the defaults of its signature.
DefaultKelly == NewKelly(Rat(55, 100), Rat(5, 100), Rat(2, 100), Rat(25, 100), ROne, RZero)

\* MomentumSentimentStrategy.__init__: lines 66-148 of
\* momentum_sentiment_strategy.py.  spy_available: a second data feed was
\* given; sentiment_enabled: use_sentiment is set and the analyzer started.
\* position and order are what backtrader keeps for the strategy.
NewMomentum(use_relative_strength, spy_available, sentiment_enabled) ==
    [use_relative_strength |-> use_relative_strength, spy_available |-> spy_available,
     sentiment_enabled |-> sentiment_enabled, position |-> FALSE, order |-> "none",
     stop_price |-> RZero]

\* DataManager.__init__: lines 23-89.  The cache is there unless use_cache is
\* False or DataCache() raised; an adapter is available when its module
\* imports; no adapter object exists yet.
NewDataManager(use_cache, futu_available, financial_available, tushare_available) ==
    [use_cache |-> use_cache,
     futu_available |-> futu_available, futu_fetcher |-> FALSE, futu_connected |-> FALSE,
     financial_available |-> financial_available, financial_api |-> FALSE,
     tushare_available |-> tushare_available, tushare_fetcher |-> FALSE]

InitSched ==
    /\ clock = [day |-> 0, past |-> FALSE]
    /\ tasks = <<>>
    /\ jobs = <<>>
    /\ running = FALSE
    /\ loops = [t \in LoopIds |-> NoLoop]
    /\ on_signal_callback = FALSE
    /\ on_error_callback = FALSE
    /\ active_strategies = <<>>
    /\ files = <<>>
    /\ metadata = <<>>
    /\ us_files = <<>>
    /\ us_metadata = <<>>
    /\ dm = NewDataManager(TRUE, TRUE, TRUE, TRUE)
    /\ kelly = DefaultKelly
    /\ strategy = NewMomentum(TRUE, TRUE, FALSE)

(***************************************************************************)
(* The sequential caller.  call holds the arguments and the result of a    *)
(* check_order the caller has not acted on yet.                            *)
(***************************************************************************)
Idle == [op |-> "idle"]

Init ==
    /\ today = 0
    /\ last_reset_date = 0
    /\ daily_trades = 0
    /\ daily_buy_amount = 0
    /\ daily_sell_amount = 0
    /\ trade_history = <<>>
    /\ call = Idle
    /\ thr = <<>>
    /\ InitSched

\* The calendar date changes.
Tick ==
    /\ today < MaxDay
    /\ today' = today + 1
    /\ UNCHANGED <<last_reset_date, daily_trades, daily_buy_amount,
                   daily_sell_amount, trade_history, call, thr>>
    /\ UNCHANGED schedVars
    /\ UNCHANGED <<cacheVars, serviceVars>>

\* RiskManager.check_order(order_data, account_info, positions)
check_order(order, account_info, positions) ==
    /\ last_reset_date' = today
    /\ daily_trades' = TradesAfterReset
    /\ daily_buy_amount' = BuyAfterReset
    /\ daily_sell_amount' = SellAfterReset
    /\ call' = [op |-> "check_order", order |-> order, account_info |-> account_info,
                positions |-> positions, stale |-> Stale, trades_on_entry |-> daily_trades,
                trades |-> TradesAfterReset,
                ret |-> CheckOrder(order, account_info, positions, TradesAfterReset)]
    /\ UNCHANGED <<today, trade_history, thr>>
    /\ UNCHANGED schedVars
    /\ UNCHANGED <<cacheVars, serviceVars>>

\* One entry of the ledger.
HistoryEntry(order) ==
    [time |-> today, stock_code |-> order.stock_code,
     direction |-> order.direction, amount |-> Amount(order)]

\* RiskManager.update_daily_stats(order_data)
update_daily_stats(order) ==
    /\ last_reset_date' = today
    /\ daily_trades' = TradesAfterReset + 1
    /\ daily_buy_amount' =
         IF order.direction = "BUY" THEN BuyAfterReset + Amount(order) ELSE BuyAfterReset
    /\ daily_sell_amount' =
         IF order.direction = "BUY" THEN SellAfterReset ELSE SellAfterReset + Amount(order)
    /\ trade_history' = Append(trade_history, HistoryEntry(order))
    /\ call' = Idle
    /\ UNCHANGED <<today, thr>>
    /\ UNCHANGED schedVars
    /\ UNCHANGED <<cacheVars, serviceVars>>

\* RiskManager.get_daily_stats()
get_daily_stats ==
    /\ last_reset_date' = today
    /\ daily_trades' = TradesAfterReset
    /\ daily_buy_amount' = BuyAfterReset
    /\ daily_sell_amount' = SellAfterReset
    /\ call' = Idle
    /\ UNCHANGED <<today, trade_history, thr>>
    /\ UNCHANGED schedVars
    /\ UNCHANGED <<cacheVars, serviceVars>>

\* The caller, holding no unconsumed result, checks an order.
Check ==
    /\ call.op # "check_order"
    /\ \E order \in Orders, account_info \in Accounts, positions \in PositionArgs :
          check_order(order, account_info, positions)

\* The caller records the order check_order has just accepted
\* (risk_manager.py lines 362-367: if is_pass: update_daily_stats(order)).
Record ==
    /\ call.op = "check_order"
    /\ call.ret.is_pass
    /\ Len(trade_history) < MaxHistory
    /\ call.order = StandingOrder \/ (call.order = StandingSell /\ trade_history = <<>>)
    /\ update_daily_stats(call.order)

\* The caller goes on without recording the checked order (it was rejected, or
\* it is not placed).
Discard ==
    /\ call.op = "check_order"
    /\ call' = Idle
    /\ UNCHANGED <<riskVars, thr>>
    /\ UNCHANGED schedVars
    /\ UNCHANGED <<cacheVars, serviceVars>>

\* The caller asks for the day's statistics.
Stats ==
    /\ call.op # "check_order"
    /\ get_daily_stats

Next == Tick \/ Check \/ Record \/ Discard \/ Stats

Spec == Init /\ [][Next]_vars

(***************************************************************************)
(* Concurrent callers of one RiskManager: a scheduled job and an on-demand *)
(* call, each checking the standing order and recording it when it is      *)
(* accepted.  RiskManager holds no lock.  A thread switch can fall between *)
(* any two bytecodes, so x += 1 is a load and a later store; check_order   *)
(* is taken as one step (it writes nothing but the daily reset).           *)
(***************************************************************************)
Threads == {"scheduled", "manual"}

ThreadIdle == [pc |-> "idle", tmp |-> 0]

InitConc ==
    /\ today = 0
    /\ last_reset_date = 0
    /\ daily_trades = 0
    /\ daily_buy_amount = 0
    /\ daily_sell_amount = 0
    /\ trade_history = <<>>
    /\ call = Idle
    /\ thr = [t \in Threads |-> ThreadIdle]
    /\ InitSched

\* check_order(StandingOrder): lines 88-199.
t_check(t) ==
    /\ thr[t].pc = "idle"
    /\ Len(trade_history) < MaxHistory
    /\ last_reset_date' = today
    /\ daily_trades' = TradesAfterReset
    /\ daily_buy_amount' = BuyAfterReset
    /\ daily_sell_amount' = SellAfterReset
    /\ thr' = [thr EXCEPT ![t].pc =
                  IF CheckOrder(StandingOrder, NoneArg, NoneArg, TradesAfterReset).is_pass
                  THEN "accepted" ELSE "idle"]
    /\ UNCHANGED <<today, trade_history, call>>
    /\ UNCHANGED schedVars
    /\ UNCHANGED <<cacheVars, serviceVars>>

\* update_daily_stats, lines 210-215: the reset, then the load of self.daily_trades.
t_load_trades(t) ==
    /\ thr[t].pc = "accepted"
    /\ last_reset_date' = today
    /\ daily_trades' = TradesAfterReset
    /\ daily_buy_amount' = BuyAfterReset
    /\ daily_sell_amount' = SellAfterReset
    /\ thr' = [thr EXCEPT ![t] = [pc |-> "store_trades", tmp |-> TradesAfterReset]]
    /\ UNCHANGED <<today, trade_history, call>>
    /\ UNCHANGED schedVars
    /\ UNCHANGED <<cacheVars, serviceVars>>

\* line 215: the store of self.daily_trades.
t_store_trades(t) ==
    /\ thr[t].pc = "store_trades"
    /\ daily_trades' = thr[t].tmp + 1
    /\ thr' = [thr EXCEPT ![t] = [pc |-> "load_amount", tmp |-> 0]]
    /\ UNCHANGED <<today, last_reset_date, daily_buy_amount, daily_sell_amount,
                   trade_history, call>>
    /\ UNCHANGED schedVars
    /\ UNCHANGED <<cacheVars, serviceVars>>

\* lines 217-220: the load of the amount of the order's side.
t_load_amount(t) ==
    /\ thr[t].pc = "load_amount"
    /\ thr' = [thr EXCEPT ![t] =
                  [pc |-> "store_amount",
                   tmp |-> IF StandingOrder.direction = "BUY"
                           THEN daily_buy_amount ELSE daily_sell_amount]]
    /\ UNCHANGED <<riskVars, call>>
    /\ UNCHANGED schedVars
    /\ UNCHANGED <<cacheVars, serviceVars>>

\* lines 217-220: the store of the amount.
t_store_amount(t) ==
    /\ thr[t].pc = "store_amount"
    /\ IF StandingOrder.direction = "BUY"
       THEN /\ daily_buy_amount' = thr[t].tmp + Amount(StandingOrder)
            /\ UNCHANGED daily_sell_amount
       ELSE /\ daily_sell_amount' = thr[t].tmp + Amount(StandingOrder)
            /\ UNCHANGED daily_buy_amount
    /\ thr' = [thr EXCEPT ![t] = [pc |-> "append", tmp |-> 0]]
    /\ UNCHANGED <<today, last_reset_date, daily_trades, trade_history, call>>
    /\ UNCHANGED schedVars
    /\ UNCHANGED <<cacheVars, serviceVars>>

\* lines 223-228: the entry of the ledger.
t_append(t) ==
    /\ thr[t].pc = "append"
    /\ trade_history' = Append(trade_history, HistoryEntry(StandingOrder))
    /\ thr' = [thr EXCEPT ![t] = ThreadIdle]
    /\ UNCHANGED <<today, last_reset_date, daily_trades, daily_buy_amount,
                   daily_sell_amount, call>>
    /\ UNCHANGED schedVars
    /\ UNCHANGED <<cacheVars, serviceVars>>

NextConc ==
    \E t \in Threads :
        \/ t_check(t)
        \/ t_load_trades(t)
        \/ t_store_trades(t)
        \/ t_load_amount(t)
        \/ t_store_amount(t)
        \/ t_append(t)

SpecConc == InitConc /\ [][NextConc]_vars

(***************************************************************************)
(* The scheduler's operations and its clock-loop thread.                   *)
(***************************************************************************)
\* The messages the error callback is called with: the fixed text of line 99
\* when the fetch returned None, str(e) otherwise.
NoDataMsg == "no data"
FetchErrorMsg == "fetch raised"
NotRegisteredMsg == "strategy not registered"

ErrorCall(err_cb, task_name, msg) ==
    IF err_cb THEN <<[task_name |-> task_name, msg |-> msg]>> ELSE <<>>

\* The signal job without its try/except: what the fetch raises leaves the job.
SignalJobUncaught(job, env, err_cb, sig_cb, active) ==
    LET registered == job.strategy \in strategy_classes
        activated == IF registered
                     THEN activate_strategy(active, job.stock_code, job.strategy)
                     ELSE active
        signals == generate_signal(activated, job.stock_code, env.analysis)
    IN  IF ~registered
        THEN [error_calls |-> ErrorCall(err_cb, job.task_name, NotRegisteredMsg),
              signal_calls |-> <<>>, active |-> activated, escaped |-> FALSE,
              body |-> TRUE]
        ELSE IF env.fetch = "raise"
        THEN [error_calls |-> <<>>,
              signal_calls |-> <<>>, active |-> activated, escaped |-> TRUE,
              body |-> TRUE]
        ELSE IF env.fetch = "none"
        THEN [error_calls |-> ErrorCall(err_cb, job.task_name, NoDataMsg),
              signal_calls |-> <<>>, active |-> activated, escaped |-> FALSE,
              body |-> TRUE]
        ELSE [error_calls |-> <<>>,
              signal_calls |-> IF sig_cb THEN signals ELSE <<>>,
              active |-> activated, escaped |-> FALSE,
              body |-> TRUE]

\* The body of the job add_daily_signal_task registers: the calls it makes to
\* the two callbacks, the strategies active afterwards, and whether an
\* exception leaves it.
SignalJob(job, env, err_cb, sig_cb, active) ==
    LET registered == job.strategy \in strategy_classes
        activated == IF registered
                     THEN activate_strategy(active, job.stock_code, job.strategy)
                     ELSE active
        signals == generate_signal(activated, job.stock_code, env.analysis)
    IN  IF ~registered
        THEN [error_calls |-> ErrorCall(err_cb, job.task_name, NotRegisteredMsg),
              signal_calls |-> <<>>, active |-> activated, escaped |-> FALSE,
              body |-> TRUE]
        ELSE IF env.fetch = "raise"
        THEN [error_calls |-> ErrorCall(err_cb, job.task_name, FetchErrorMsg),
              signal_calls |-> <<>>, active |-> activated, escaped |-> FALSE,
              body |-> TRUE]
        ELSE IF env.fetch = "none"
        THEN [error_calls |-> ErrorCall(err_cb, job.task_name, NoDataMsg),
              signal_calls |-> <<>>, active |-> activated, escaped |-> FALSE,
              body |-> TRUE]
        ELSE [error_calls |-> <<>>,
              signal_calls |-> IF sig_cb THEN signals ELSE <<>>,
              active |-> activated, escaped |-> FALSE,
              body |-> TRUE]

\* The callback add_custom_task registers is the job itself: nothing wraps it.
CustomJob(outcome, active) ==
    [error_calls |-> <<>>, signal_calls |-> <<>>, active |-> active,
     escaped |-> (outcome = "raise"), body |-> TRUE]

\* The job add_auto_trade_task registers: it looks its task up in the table
\* before its try, returns when the task is not enabled, and otherwise runs a
\* body that places no order yet.
TradeJob(job, table, active) ==
    [error_calls |-> <<>>, signal_calls |-> <<>>, active |-> active,
     escaped |-> (job.task_name \notin DOMAIN table),
     body |-> (job.task_name \in DOMAIN table /\ table[job.task_name].enabled)]

\* TaskScheduler.set_signal_callback / set_error_callback
set_signal_callback ==
    /\ on_signal_callback' = TRUE
    /\ UNCHANGED <<clock, tasks, jobs, running, loops, on_error_callback,
                   active_strategies>>
    /\ UNCHANGED gateVars
    /\ UNCHANGED <<cacheVars, serviceVars>>

set_error_callback ==
    /\ on_error_callback' = TRUE
    /\ UNCHANGED <<clock, tasks, jobs, running, loops, on_signal_callback,
                   active_strategies>>
    /\ UNCHANGED gateVars
    /\ UNCHANGED <<cacheVars, serviceVars>>

\* self.tasks[task_name] = info
PutTask(task_name, info) ==
    [n \in DOMAIN tasks \cup {task_name} |-> IF n = task_name THEN info ELSE tasks[n]]

\* TaskScheduler.add_daily_signal_task(stock_code, "16:10", strategy_name, params)
add_daily_signal_task(stock_code, strategy_name) ==
    /\ Len(jobs) < MaxJobs
    /\ jobs' = Append(jobs, [kind |-> "signal", task_name |-> SignalTaskName(stock_code),
                             stock_code |-> stock_code, strategy |-> strategy_name,
                             next_run |-> NextTrigger])
    /\ tasks' = PutTask(SignalTaskName(stock_code),
                        [type |-> "signal", stock_code |-> stock_code,
                         strategy |-> strategy_name, enabled |-> TRUE])
    /\ UNCHANGED <<clock, running, loops, on_signal_callback, on_error_callback,
                   active_strategies>>
    /\ UNCHANGED gateVars
    /\ UNCHANGED <<cacheVars, serviceVars>>

\* TaskScheduler.add_custom_task(task_name, "16:10", callback)
add_custom_task(task_name) ==
    /\ Len(jobs) < MaxJobs
    /\ jobs' = Append(jobs, [kind |-> "custom", task_name |-> task_name,
                             stock_code |-> <<>>, strategy |-> "",
                             next_run |-> NextTrigger])
    /\ tasks' = PutTask(task_name, [type |-> "custom", stock_code |-> <<>>,
                                    strategy |-> "", enabled |-> TRUE])
    /\ UNCHANGED <<clock, running, loops, on_signal_callback, on_error_callback,
                   active_strategies>>
    /\ UNCHANGED gateVars
    /\ UNCHANGED <<cacheVars, serviceVars>>

\* f"trade_{stock_code}_{time_str.replace(':', '')}"
TradeTaskName(stock_code) == <<"trade", stock_code, "1610">>

\* TaskScheduler.add_auto_trade_task(stock_code, "16:10", enable=enable)
add_auto_trade_task(stock_code, enable) ==
    /\ Len(jobs) < MaxJobs
    /\ jobs' = Append(jobs, [kind |-> "trade", task_name |-> TradeTaskName(stock_code),
                             stock_code |-> stock_code, strategy |-> "",
                             next_run |-> NextTrigger])
    /\ tasks' = PutTask(TradeTaskName(stock_code),
                        [type |-> "trade", stock_code |-> stock_code,
                         strategy |-> "", enabled |-> enable])
    /\ UNCHANGED <<clock, running, loops, on_signal_callback, on_error_callback,
                   active_strategies>>
    /\ UNCHANGED gateVars
    /\ UNCHANGED <<cacheVars, serviceVars>>

\* The names the table operations are called with.
TaskNames ==
    {SignalTaskName(c) : c \in SchedStocks} \cup {TradeTaskName(c) : c \in SchedStocks}
        \cup CustomNames

\* TaskScheduler.remove_task(task_name): the entry leaves the table; the job
\* stays with the clock.  An unknown name is only reported.
remove_task(task_name) ==
    /\ task_name \in DOMAIN tasks
    /\ tasks' = [n \in DOMAIN tasks \ {task_name} |-> tasks[n]]
    /\ UNCHANGED <<clock, jobs, running, loops, on_signal_callback, on_error_callback,
                   active_strategies>>
    /\ UNCHANGED gateVars
    /\ UNCHANGED <<cacheVars, serviceVars>>

\* TaskScheduler.enable_task(task_name) / disable_task(task_name)
SetEnabled(task_name, flag) ==
    /\ task_name \in DOMAIN tasks
    /\ tasks' = [tasks EXCEPT ![task_name].enabled = flag]
    /\ UNCHANGED <<clock, jobs, running, loops, on_signal_callback, on_error_callback,
                   active_strategies>>
    /\ UNCHANGED gateVars
    /\ UNCHANGED <<cacheVars, serviceVars>>

enable_task(task_name) == SetEnabled(task_name, TRUE)

disable_task(task_name) == SetEnabled(task_name, FALSE)

\* TaskScheduler.start: returns at once when running is set; otherwise sets it
\* and starts a new thread on run_schedule.
start ==
    /\ ~running
    /\ \E t \in DOMAIN loops : loops[t].pc = "none"
    /\ loops' = [loops EXCEPT ![CHOOSE t \in DOMAIN loops : loops[t].pc = "none"] =
                    [pc |-> "head", polled |-> <<>>, ran |-> <<>>]]
    /\ running' = TRUE
    /\ UNCHANGED <<clock, tasks, jobs, on_signal_callback, on_error_callback,
                   active_strategies>>
    /\ UNCHANGED gateVars
    /\ UNCHANGED <<cacheVars, serviceVars>>

\* TaskScheduler.stop: clears running and waits at most five seconds for the
\* thread, which may be asleep for sixty or inside a job.
stop ==
    /\ running
    /\ running' = FALSE
    /\ UNCHANGED <<clock, tasks, jobs, loops, on_signal_callback, on_error_callback,
                   active_strategies>>
    /\ UNCHANGED gateVars
    /\ UNCHANGED <<cacheVars, serviceVars>>

\* Time passes: the day's trigger time, then midnight.
clock_advance ==
    /\ clock.past => clock.day < MaxDay
    /\ clock' = IF clock.past THEN [day |-> clock.day + 1, past |-> FALSE]
                ELSE [day |-> clock.day, past |-> TRUE]
    /\ UNCHANGED <<tasks, jobs, running, loops, on_signal_callback, on_error_callback,
                   active_strategies>>
    /\ UNCHANGED gateVars
    /\ UNCHANGED <<cacheVars, serviceVars>>

\* run_schedule: the loop test fails and the thread ends.
loop_exit(t) ==
    /\ loops[t].pc = "head"
    /\ ~running
    /\ loops' = [loops EXCEPT ![t] = NoLoop]
    /\ UNCHANGED <<clock, tasks, jobs, running, on_signal_callback, on_error_callback,
                   active_strategies>>
    /\ UNCHANGED gateVars
    /\ UNCHANGED <<cacheVars, serviceVars>>

\* run_schedule: the loop test holds and schedule.run_pending() collects and
\* sorts the jobs that are due.
run_pending(t) ==
    /\ loops[t].pc = "head"
    /\ running
    /\ RunnableJobs # <<>>
    /\ loops' = [loops EXCEPT ![t] = [pc |-> "dispatch", polled |-> RunnableJobs,
                                      ran |-> <<>>]]
    /\ UNCHANGED <<clock, tasks, jobs, running, on_signal_callback, on_error_callback,
                   active_strategies>>
    /\ UNCHANGED gateVars
    /\ UNCHANGED <<cacheVars, serviceVars>>

\* run_pending: the next job of the pass is called.
run_job(t) ==
    /\ loops[t].pc = "dispatch"
    /\ loops' = [loops EXCEPT ![t].pc = "in_job"]
    /\ UNCHANGED <<clock, tasks, jobs, running, on_signal_callback, on_error_callback,
                   active_strategies>>
    /\ UNCHANGED gateVars
    /\ UNCHANGED <<cacheVars, serviceVars>>

\* The job the thread is inside.
CurrentJob(t) == loops[t].polled[Len(loops[t].ran) + 1]

\* The job body returns or raises.  When it returns, the clock library sets
\* its next run and run_pending goes on to the next due job, or the thread
\* goes to sleep; when it raises, nothing between the job and the thread's
\* top frame catches it.
JobDone(t, kind, fetch, res) ==
    LET i == CurrentJob(t)
        ran == Append(loops[t].ran,
                      [job |-> i, task_name |-> jobs[i].task_name, kind |-> kind,
                       fetch |-> fetch, had_error_callback |-> on_error_callback,
                       error_calls |-> res.error_calls,
                       signal_calls |-> res.signal_calls, escaped |-> res.escaped,
                       task_present |-> jobs[i].task_name \in DOMAIN tasks,
                       task_enabled |-> (jobs[i].task_name \in DOMAIN tasks
                                         /\ tasks[jobs[i].task_name].enabled),
                       body |-> res.body])
    IN  /\ loops' = [loops EXCEPT ![t] =
                        [pc |-> IF res.escaped THEN "dead"
                                ELSE IF Len(ran) = Len(loops[t].polled) THEN "head"
                                ELSE "dispatch",
                         polled |-> loops[t].polled, ran |-> ran]]
        /\ jobs' = IF res.escaped THEN jobs
                   ELSE [jobs EXCEPT ![i].next_run = NextTrigger]
        /\ active_strategies' = res.active
        /\ UNCHANGED <<clock, tasks, running, on_signal_callback, on_error_callback>>
        /\ UNCHANGED gateVars
        /\ UNCHANGED <<cacheVars, serviceVars>>

signal_job(t) ==
    /\ loops[t].pc = "in_job"
    /\ jobs[CurrentJob(t)].kind = "signal"
    /\ \E env \in SignalEnvs :
          JobDone(t, "signal",
                  IF jobs[CurrentJob(t)].strategy \in strategy_classes
                  THEN env.fetch ELSE "not reached",
                  SignalJob(jobs[CurrentJob(t)], env, on_error_callback,
                            on_signal_callback, active_strategies))

custom_job(t) ==
    /\ loops[t].pc = "in_job"
    /\ jobs[CurrentJob(t)].kind = "custom"
    /\ \E outcome \in CustomOutcomes :
          JobDone(t, "custom", "", CustomJob(outcome, active_strategies))

trade_job(t) ==
    /\ loops[t].pc = "in_job"
    /\ jobs[CurrentJob(t)].kind = "trade"
    /\ JobDone(t, "trade", "", TradeJob(jobs[CurrentJob(t)], tasks, active_strategies))

SetCallback == set_signal_callback \/ set_error_callback
AddSignalTask ==
    \E stock_code \in SchedStocks, strategy_name \in SchedStrategies :
        add_daily_signal_task(stock_code, strategy_name)
AddCustomTask == \E task_name \in CustomNames : add_custom_task(task_name)
LoopExit == \E t \in LoopIds : loop_exit(t)
RunPending == \E t \in LoopIds : run_pending(t)
RunJob == \E t \in LoopIds : run_job(t)
SignalJobRuns == \E t \in LoopIds : signal_job(t)
CustomJobRuns == \E t \in LoopIds : custom_job(t)

NextSched ==
    \/ SetCallback
    \/ AddSignalTask
    \/ AddCustomTask
    \/ start
    \/ stop
    \/ clock_advance
    \/ LoopExit
    \/ RunPending
    \/ RunJob
    \/ SignalJobRuns
    \/ CustomJobRuns

SpecSched == Init /\ [][NextSched]_vars

(***************************************************************************)
(* The started scheduler left running: nobody calls stop().  The loop      *)
(* thread is scheduled fairly: it polls once a minute, and a job body that *)
(* was entered returns or raises.                                          *)
(***************************************************************************)
NextLive ==
    \/ SetCallback
    \/ AddSignalTask
    \/ AddCustomTask
    \/ start
    \/ clock_advance
    \/ RunPending
    \/ RunJob
    \/ SignalJobRuns
    \/ CustomJobRuns

SpecLive ==
    /\ Init
    /\ [][NextLive]_vars
    /\ WF_vars(RunPending)
    /\ WF_vars(RunJob)
    /\ WF_vars(SignalJobRuns)
    /\ WF_vars(CustomJobRuns)

(***************************************************************************)
(* start() called again after stop(): stop() waits five seconds for a      *)
(* thread that sleeps sixty, so the thread of the first start() can still  *)
(* be alive when the second start() sets running again.                    *)
(***************************************************************************)
RestartLoopIds == {"loop1", "loop2"}

InitRestart ==
    /\ today = 0
    /\ last_reset_date = 0
    /\ daily_trades = 0
    /\ daily_buy_amount = 0
    /\ daily_sell_amount = 0
    /\ trade_history = <<>>
    /\ call = Idle
    /\ thr = <<>>
    /\ clock = [day |-> 0, past |-> FALSE]
    /\ tasks = <<>>
    /\ jobs = <<>>
    /\ running = FALSE
    /\ loops = [t \in RestartLoopIds |-> NoLoop]
    /\ on_signal_callback = FALSE
    /\ on_error_callback = FALSE
    /\ active_strategies = <<>>
    /\ files = <<>>
    /\ metadata = <<>>
    /\ us_files = <<>>
    /\ us_metadata = <<>>
    /\ dm = NewDataManager(TRUE, TRUE, TRUE, TRUE)
    /\ kelly = DefaultKelly
    /\ strategy = NewMomentum(TRUE, TRUE, FALSE)

NextRestart ==
    \/ \E task_name \in CustomNames : add_custom_task(task_name)
    \/ start
    \/ stop
    \/ clock_advance
    \/ \E t \in RestartLoopIds : loop_exit(t)
    \/ \E t \in RestartLoopIds : run_pending(t)
    \/ \E t \in RestartLoopIds : run_job(t)
    \/ \E t \in RestartLoopIds : custom_job(t)

SpecRestart == InitRestart /\ [][NextRestart]_vars

(***************************************************************************)
(* Manual runs: run_task_now called by the thread that owns the scheduler. *)
(* call holds the arguments of the latest manual run, what the outside     *)
(* world answered, and the callback calls the run made.                    *)
(***************************************************************************)
\* What run_task_now does with a task of the table: a signal task is run
\* through activation, fetch and signal delivery, with every failure only
\* printed; any other type is reported as not supported.
RunTaskNow(task, env, sig_cb, active) ==
    LET registered == task.strategy \in strategy_classes
        activated == IF registered
                     THEN activate_strategy(active, task.stock_code, task.strategy)
                     ELSE active
        signals == generate_signal(activated, task.stock_code, env.analysis)
    IN  IF task.type # "signal"
        THEN [error_calls |-> <<>>, signal_calls |-> <<>>, active |-> active,
              escaped |-> FALSE, body |-> FALSE]
        ELSE IF ~registered \/ env.fetch # "df"
        THEN [error_calls |-> <<>>, signal_calls |-> <<>>, active |-> activated,
              escaped |-> FALSE, body |-> TRUE]
        ELSE [error_calls |-> <<>>,
              signal_calls |-> IF sig_cb THEN signals ELSE <<>>,
              active |-> activated, escaped |-> FALSE, body |-> TRUE]

\* The job most recently registered with the clock under a task name.
LastJobNamed(task_name) ==
    jobs[CHOOSE i \in 1..Len(jobs) :
            /\ jobs[i].task_name = task_name
            /\ \A j \in 1..Len(jobs) : jobs[j].task_name = task_name => j <= i]

\* TaskScheduler.run_task_now(task_name); an unknown name is only reported.
run_task_now(task_name, env) ==
    /\ task_name \in DOMAIN tasks
    /\ LET res == RunTaskNow(tasks[task_name], env, on_signal_callback,
                             active_strategies)
       IN  /\ call' = [op |-> "run_task_now", task_name |-> task_name, env |-> env,
                       job |-> LastJobNamed(task_name),
                       had_error_callback |-> on_error_callback,
                       had_signal_callback |-> on_signal_callback,
                       active |-> active_strategies,
                       error_calls |-> res.error_calls,
                       signal_calls |-> res.signal_calls, body |-> res.body]
           /\ active_strategies' = res.active
    /\ UNCHANGED <<riskVars, thr>>
    /\ UNCHANGED <<clock, tasks, jobs, running, loops, on_signal_callback,
                   on_error_callback>>
    /\ UNCHANGED <<cacheVars, serviceVars>>

ManualRun == \E task_name \in TaskNames, env \in SignalEnvs : run_task_now(task_name, env)

NextManual ==
    \/ SetCallback
    \/ AddSignalTask
    \/ AddCustomTask
    \/ ManualRun

SpecManual == Init /\ [][NextManual]_vars

(***************************************************************************)
(* The scheduler with its task table operations: tasks of the signal and   *)
(* the auto-trade kind are added, removed, enabled and disabled while one  *)
(* loop thread runs.                                                       *)
(***************************************************************************)
AddTradeTask ==
    \E stock_code \in SchedStocks, enable \in BOOLEAN :
        add_auto_trade_task(stock_code, enable)
RemoveTask == \E task_name \in TaskNames : remove_task(task_name)
EnableTask == \E task_name \in TaskNames : enable_task(task_name)
DisableTask == \E task_name \in TaskNames : disable_task(task_name)
TradeJobRuns == \E t \in LoopIds : trade_job(t)

NextTasks ==
    \/ AddSignalTask
    \/ AddTradeTask
    \/ RemoveTask
    \/ EnableTask
    \/ DisableTask
    \/ start
    \/ clock_advance
    \/ RunPending
    \/ RunJob
    \/ SignalJobRuns
    \/ TradeJobRuns

SpecTasks == Init /\ [][NextTasks]_vars

(***************************************************************************)
(* The price caches (data/data_cache.py, data/us_data_cache.py).  A date   *)
(* is a day number; a frame is a pandas DataFrame: its column names, the   *)
(* type of its date column, and its rows, where one value stands for the   *)
(* numeric fields of a bar.                                                *)
(***************************************************************************)
MaxDate == 2
MaxEntries == 2

Dates == 1..MaxDate
Versions == {1, 2}
CacheCodes == {TSLA, HK0700}

StdColumns == <<"date", "open", "high", "low", "close", "volume">>
NoVolumeColumns == <<"date", "open", "high", "low", "close">>
NoDateColumns == <<"open", "high", "low", "close", "volume">>

\* required_cols of DataCache.load
required_cols == {"date", "open", "high", "low", "close", "volume"}

NoneFrame == [is_none |-> TRUE]

Frame(columns, date_type, rows) ==
    [is_none |-> FALSE, columns |-> columns, date_type |-> date_type, rows |-> rows]

\* The bars a provider returns for a range: one per day, all from one fetch.
RECURSIVE Bars(_, _, _)
Bars(start_date, end_date, version) ==
    IF start_date > end_date THEN <<>>
    ELSE <<[date |-> start_date, value |-> version]>>
           \o Bars(start_date + 1, end_date, version)

\* The frames save is called with for a range: series with and without a
\* volume column, of either date type, a frame without a date column, and the
\* empty frame.
FramesFor(start_date, end_date) ==
    {Frame(c, t, Bars(start_date, end_date, v)) :
        c \in {StdColumns, NoVolumeColumns},
        t \in {"str", "datetime"}, v \in Versions}
    \cup {Frame(NoDateColumns, "str", Bars(start_date, end_date, 1)),
          Frame(StdColumns, "str", <<>>)}

\* to_csv with the index column written as well.
to_csv_with_index(df) == [header |-> <<"Unnamed: 0">> \o df.columns, lines |-> df.rows]

\* DataFrame.to_csv(path, index=False): the header and one line per row; a
\* date is written as its text whatever its type was.
to_csv(df) == [header |-> df.columns, lines |-> df.rows]

\* pd.read_csv(path): the date column comes back as text.
read_csv(csv) == Frame(csv.header, "str", csv.lines)

\* str.replace(old, new) on a string
RECURSIVE Replace(_, _, _)
Replace(str, old, new) ==
    IF str = <<>> THEN <<>>
    ELSE <<IF Head(str) = old THEN new ELSE Head(str)>> \o Replace(Tail(str), old, new)

\* DataCache.get_cache_path: f"{clean_code}_{start_date}_{end_date}.csv"
get_cache_path(stock_code, start_date, end_date) ==
    <<Replace(stock_code, ".", "_"), start_date, end_date>>

\* cache_key = f"{stock_code}_{start_date}_{end_date}"
CacheKey(stock_code, start_date, end_date) == <<stock_code, start_date, end_date>>

\* d[k] = v and del d[k] for k in ks, on a dict
DictSet(d, k, v) == [x \in DOMAIN d \cup {k} |-> IF x = k THEN v ELSE d[x]]

DictDel(d, ks) == [x \in DOMAIN d \ ks |-> d[x]]

\* What DataCache.load returns.
Load(stock_code, start_date, end_date) ==
    LET cache_path == get_cache_path(stock_code, start_date, end_date)
    IN  IF cache_path \notin DOMAIN files THEN NoneFrame
        ELSE IF ~(required_cols \subseteq SeqRange(read_csv(files[cache_path]).columns))
        THEN NoneFrame
        ELSE read_csv(files[cache_path])

\* DataCache.load(stock_code, start_date, end_date)
load(stock_code, start_date, end_date) ==
    /\ call' = [op |-> "load", stock_code |-> stock_code, start_date |-> start_date,
                end_date |-> end_date, ret |-> Load(stock_code, start_date, end_date),
                prev |-> IF /\ call.op = "save"
                            /\ call.stock_code = stock_code
                            /\ call.start_date = start_date
                            /\ call.end_date = end_date
                         THEN call ELSE Idle]
    /\ UNCHANGED <<riskVars, thr>>
    /\ UNCHANGED schedVars
    /\ UNCHANGED <<cacheVars, serviceVars>>

\* DataCache.save(stock_code, start_date, end_date, df): nothing is written
\* for an empty frame or one without a date column.
save(stock_code, start_date, end_date, df) ==
    LET cache_path == get_cache_path(stock_code, start_date, end_date)
        cache_key == CacheKey(stock_code, start_date, end_date)
        saved == Len(df.rows) # 0 /\ "date" \in SeqRange(df.columns)
    IN  /\ saved /\ cache_path \notin DOMAIN files
              => Cardinality(DOMAIN files) < MaxEntries
        /\ files' = IF saved THEN DictSet(files, cache_path, to_csv(df)) ELSE files
        /\ metadata' = IF saved
                       THEN DictSet(metadata, cache_key,
                                    [stock_code |-> stock_code, start_date |-> start_date,
                                     end_date |-> end_date, rows |-> Len(df.rows),
                                     file_path |-> cache_path])
                       ELSE metadata
        /\ call' = [op |-> "save", stock_code |-> stock_code, start_date |-> start_date,
                    end_date |-> end_date, df |-> df]
        /\ UNCHANGED <<serviceVars, riskVars, thr, us_files, us_metadata>>
        /\ UNCHANGED schedVars

\* DataCache.clear_cache(stock_code): the files and entries the metadata
\* lists for the code.
clear_cache(stock_code) ==
    LET keys == {k \in DOMAIN metadata : metadata[k].stock_code = stock_code}
    IN  /\ files' = DictDel(files, {metadata[k].file_path : k \in keys})
        /\ metadata' = DictDel(metadata, keys)
        /\ call' = Idle
        /\ UNCHANGED <<serviceVars, riskVars, thr, us_files, us_metadata>>
        /\ UNCHANGED schedVars

\* DataCache.clear_cache(): every csv file and every entry.
clear_all ==
    /\ files' = <<>>
    /\ metadata' = <<>>
    /\ call' = Idle
    /\ UNCHANGED <<serviceVars, riskVars, thr, us_files, us_metadata>>
    /\ UNCHANGED schedVars

CacheSave ==
    \E stock_code \in CacheCodes, start_date \in Dates, end_date \in Dates :
        /\ start_date <= end_date
        /\ \E df \in FramesFor(start_date, end_date) :
              save(stock_code, start_date, end_date, df)
CacheLoad ==
    \E stock_code \in CacheCodes, start_date \in Dates, end_date \in Dates :
        /\ start_date <= end_date
        /\ load(stock_code, start_date, end_date)
CacheClear == (\E stock_code \in CacheCodes : clear_cache(stock_code)) \/ clear_all

NextCache == CacheSave \/ CacheLoad \/ CacheClear

SpecCache == Init /\ [][NextCache]_vars

(***************************************************************************)
(* The caches under two callers.  The scheduled job and an on-demand call  *)
(* reach the same cache for the same ticker from two threads; neither      *)
(* DataCache nor USDataCache holds a lock.  A thread switch can fall       *)
(* between any two file or dictionary operations, so every method is       *)
(* taken in the steps that touch the directory or the metadata.  thr[t]    *)
(* holds the caller's position, its arguments and locals and, once it is   *)
(* back at "idle", the operation it completed last.                        *)
(***************************************************************************)
CacheIdle ==
    [pc |-> "idle", op |-> "none", stock_code |-> <<>>, start_date |-> 0,
     end_date |-> 0, df |-> NoneFrame, local |-> NoneFrame, linked |-> FALSE,
     ret |-> NoneFrame]

InitCacheConc ==
    /\ today = 0
    /\ last_reset_date = 0
    /\ daily_trades = 0
    /\ daily_buy_amount = 0
    /\ daily_sell_amount = 0
    /\ trade_history = <<>>
    /\ call = Idle
    /\ thr = [t \in Threads |-> CacheIdle]
    /\ InitSched

\* A file that open(path, 'w') has created or truncated and nothing has been
\* flushed to yet.
EmptyFile == [header |-> <<>>, lines |-> <<>>]

\* The frames the two callers store under one key: the same bars fetched
\* twice (all of one size, so that a later write replaces an earlier one
\* byte for byte), and an empty fetch.
ConcFrames ==
    {Frame(StdColumns, "str", Bars(1, MaxDate, v)) : v \in Versions}
        \cup {Frame(StdColumns, "str", <<>>)}

\* Every open handle on the path loses its directory entry.
Unlinked(path) ==
    [u \in Threads |->
        IF thr[u].pc = "write" /\ get_cache_path(thr[u].stock_code, thr[u].start_date,
                                                 thr[u].end_date) = path
        THEN [thr[u] EXCEPT !.linked = FALSE]
        ELSE thr[u]]

\* DataCache.save up to the open of df.to_csv(cache_path): lines 135-162.
save_open(t, stock_code, start_date, end_date, df) ==
    LET cache_path == get_cache_path(stock_code, start_date, end_date)
        args == [CacheIdle EXCEPT !.op = "save", !.stock_code = stock_code,
                                  !.start_date = start_date, !.end_date = end_date,
                                  !.df = df]
    IN  /\ thr[t].pc = "idle"
        /\ IF Len(df.rows) = 0 \/ "date" \notin SeqRange(df.columns)
           THEN /\ thr' = [thr EXCEPT ![t] = args]
                /\ UNCHANGED files
           ELSE /\ thr' = [thr EXCEPT ![t] = [args EXCEPT !.pc = "write", !.linked = TRUE]]
                /\ files' = DictSet(files, cache_path, EmptyFile)
        /\ UNCHANGED <<serviceVars, riskVars, call, metadata, us_files, us_metadata>>
        /\ UNCHANGED schedVars

\* The rows reach the file when to_csv closes it: line 162.  A handle whose
\* path was unlinked in between writes to a file no path names.
save_write(t) ==
    LET cache_path == get_cache_path(thr[t].stock_code, thr[t].start_date, thr[t].end_date)
    IN  /\ thr[t].pc = "write"
        /\ files' = IF thr[t].linked
                    THEN DictSet(files, cache_path, to_csv(thr[t].df))
                    ELSE files
        /\ thr' = [thr EXCEPT ![t].pc = "meta"]
        /\ UNCHANGED <<serviceVars, riskVars, call, metadata, us_files, us_metadata>>
        /\ UNCHANGED schedVars

\* self.metadata[cache_key] = {...}; self._save_metadata(): lines 165-173.
save_metadata(t) ==
    LET cache_path == get_cache_path(thr[t].stock_code, thr[t].start_date, thr[t].end_date)
        cache_key == CacheKey(thr[t].stock_code, thr[t].start_date, thr[t].end_date)
    IN  /\ thr[t].pc = "meta"
        /\ metadata' = DictSet(metadata, cache_key,
                               [stock_code |-> thr[t].stock_code,
                                start_date |-> thr[t].start_date,
                                end_date |-> thr[t].end_date,
                                rows |-> Len(thr[t].df.rows),
                                file_path |-> cache_path])
        /\ thr' = [thr EXCEPT ![t].pc = "idle"]
        /\ UNCHANGED <<serviceVars, riskVars, call, files, us_files, us_metadata>>
        /\ UNCHANGED schedVars

\* DataCache.load up to cache_path.exists(): lines 77-98.
load_exists(t, stock_code, start_date, end_date) ==
    LET cache_path == get_cache_path(stock_code, start_date, end_date)
        args == [CacheIdle EXCEPT !.op = "load", !.stock_code = stock_code,
                                  !.start_date = start_date, !.end_date = end_date]
    IN  /\ thr[t].pc = "idle"
        /\ thr' = [thr EXCEPT ![t] = IF cache_path \in DOMAIN files
                                     THEN [args EXCEPT !.pc = "read"]
                                     ELSE args]
        /\ UNCHANGED <<riskVars, call>>
        /\ UNCHANGED schedVars
        /\ UNCHANGED <<cacheVars, serviceVars>>

\* pd.read_csv(cache_path) and the checks on it: lines 100-121.  A missing
\* file and a file without a byte both raise, and control goes to the
\* handler of line 123.
load_read_csv(t) ==
    LET cache_path == get_cache_path(thr[t].stock_code, thr[t].start_date, thr[t].end_date)
    IN  /\ thr[t].pc = "read"
        /\ thr' = [thr EXCEPT ![t] =
              IF cache_path \notin DOMAIN files \/ files[cache_path] = EmptyFile
              THEN [@ EXCEPT !.pc = "unlink"]
              ELSE [@ EXCEPT !.pc = "idle",
                             !.ret = Load(thr[t].stock_code, thr[t].start_date,
                                          thr[t].end_date)]]
        /\ UNCHANGED <<riskVars, call>>
        /\ UNCHANGED schedVars
        /\ UNCHANGED <<cacheVars, serviceVars>>

\* cache_path.unlink() of the handler: lines 125-127.  When the file is not
\* there unlink raises, the inner except passes and the load returns None.
load_unlink(t) ==
    LET cache_path == get_cache_path(thr[t].stock_code, thr[t].start_date, thr[t].end_date)
    IN  /\ thr[t].pc = "unlink"
        /\ IF cache_path \in DOMAIN files
           THEN /\ files' = DictDel(files, {cache_path})
                /\ thr' = [Unlinked(cache_path) EXCEPT ![t].pc = "del"]
           ELSE /\ thr' = [thr EXCEPT ![t].pc = "idle"]
                /\ UNCHANGED files
        /\ UNCHANGED <<serviceVars, riskVars, call, metadata, us_files, us_metadata>>
        /\ UNCHANGED schedVars

\* del self.metadata[cache_key]; self._save_metadata(): lines 128-133.
load_del_metadata(t) ==
    LET cache_key == CacheKey(thr[t].stock_code, thr[t].start_date, thr[t].end_date)
    IN  /\ thr[t].pc = "del"
        /\ metadata' = DictDel(metadata, {cache_key})
        /\ thr' = [thr EXCEPT ![t].pc = "idle"]
        /\ UNCHANGED <<serviceVars, riskVars, call, files, us_files, us_metadata>>
        /\ UNCHANGED schedVars

\* str.upper() on the letters of a ticker.
Upper(str) ==
    [i \in 1..Len(str) |->
        CASE str[i] = "t" -> "T"
          [] str[i] = "s" -> "S"
          [] str[i] = "l" -> "L"
          [] str[i] = "a" -> "A"
          [] OTHER -> str[i]]

\* USDataCache._get_cache_filename(ticker)
get_cache_filename(ticker) == Upper(ticker) \o <<"_", "p", "r", "i", "c", "e", "s", ".", "c", "s", "v">>

\* DataFrame.drop_duplicates(subset=['date'], keep='last')
RECURSIVE drop_duplicates(_)
drop_duplicates(rows) ==
    IF rows = <<>> THEN <<>>
    ELSE IF \E i \in 2..Len(rows) : rows[i].date = Head(rows).date
         THEN drop_duplicates(Tail(rows))
         ELSE <<Head(rows)>> \o drop_duplicates(Tail(rows))

\* DataFrame.sort_values('date')
RECURSIVE sort_values(_)
sort_values(rows) ==
    IF rows = <<>> THEN <<>>
    ELSE LET m == CHOOSE i \in 1..Len(rows) :
                      \A j \in 1..Len(rows) :
                          \/ rows[i].date < rows[j].date
                          \/ rows[i].date = rows[j].date /\ i <= j
         IN  <<rows[m]>> \o sort_values(SubSeq(rows, 1, m - 1) \o SubSeq(rows, m + 1, Len(rows)))

\* The frame set_prices writes when the ticker has a file: lines 137-144.
Combined(existing_df, df) ==
    Frame(existing_df.columns, "datetime",
          sort_values(drop_duplicates(existing_df.rows \o df.rows)))

\* The frames the two callers store for one ticker: one day each, both days
\* in a later fetch, and an empty fetch.
UsFrames ==
    {Frame(StdColumns, "str", Bars(d, d, 1)) : d \in Dates}
        \cup {Frame(StdColumns, "str", Bars(1, MaxDate, 2)), Frame(StdColumns, "str", <<>>)}

UsTickers == {TSLA, <<"t", "s", "l", "a">>}

\* USDataCache.set_prices up to the merge with the file it finds: lines
\* 108-144.
set_prices_read(t, ticker, df) ==
    LET cache_file == get_cache_filename(ticker)
        args == [CacheIdle EXCEPT !.op = "set_prices", !.stock_code = ticker, !.df = df]
    IN  /\ thr[t].pc = "idle"
        /\ thr' = [thr EXCEPT ![t] =
              IF Len(df.rows) = 0 THEN args
              ELSE [args EXCEPT !.pc = "us_write",
                                !.local = IF cache_file \in DOMAIN us_files
                                          THEN Combined(read_csv(us_files[cache_file]), df)
                                          ELSE Frame(df.columns, "datetime", df.rows)]]
        /\ UNCHANGED <<riskVars, call>>
        /\ UNCHANGED schedVars
        /\ UNCHANGED <<cacheVars, serviceVars>>

\* df.to_csv(cache_file, index=False): line 147.
set_prices_to_csv(t) ==
    /\ thr[t].pc = "us_write"
    /\ us_files' = DictSet(us_files, get_cache_filename(thr[t].stock_code),
                           to_csv(thr[t].local))
    /\ thr' = [thr EXCEPT ![t].pc = "us_meta"]
    /\ UNCHANGED <<serviceVars, riskVars, call, files, metadata, us_metadata>>
    /\ UNCHANGED schedVars

\* self.metadata[ticker_key] = {...}; self._save_metadata(): lines 150-159.
set_prices_metadata(t) ==
    LET rows == thr[t].local.rows
        dates == {rows[i].date : i \in 1..Len(rows)}
    IN  /\ thr[t].pc = "us_meta"
        /\ us_metadata' = DictSet(us_metadata, Upper(thr[t].stock_code),
                                  [ticker |-> Upper(thr[t].stock_code),
                                   rows |-> Len(rows),
                                   start_date |-> CHOOSE d \in dates : \A x \in dates : d <= x,
                                   end_date |-> CHOOSE d \in dates : \A x \in dates : x <= d])
        /\ thr' = [thr EXCEPT ![t].pc = "idle"]
        /\ UNCHANGED <<serviceVars, riskVars, call, files, metadata, us_files>>
        /\ UNCHANGED schedVars

NextCacheConc ==
    \/ \E t \in Threads, df \in ConcFrames : save_open(t, TSLA, 1, MaxDate, df)
    \/ \E t \in Threads : save_write(t)
    \/ \E t \in Threads : save_metadata(t)
    \/ \E t \in Threads : load_exists(t, TSLA, 1, MaxDate)
    \/ \E t \in Threads : load_read_csv(t)
    \/ \E t \in Threads : load_unlink(t)
    \/ \E t \in Threads : load_del_metadata(t)
    \/ \E t \in Threads, ticker \in UsTickers, df \in UsFrames :
          set_prices_read(t, ticker, df)
    \/ \E t \in Threads : set_prices_to_csv(t)
    \/ \E t \in Threads : set_prices_metadata(t)

SpecCacheConc == InitCacheConc /\ [][NextCacheConc]_vars

(***************************************************************************)
(* core/data_manager.py: DataManager.get_kline_data over DataCache and the *)
(* three adapters of data/.  What a provider answers to one request is an  *)
(* input of the call: env.init is how the creation or connection of the    *)
(* adapter goes, env.fetch what the provider gives on the wire.            *)
(***************************************************************************)
DigitValue(c) ==
    CASE c = "0" -> 0 [] c = "1" -> 1 [] c = "2" -> 2 [] c = "3" -> 3 [] c = "4" -> 4
      [] c = "5" -> 5 [] c = "6" -> 6 [] c = "7" -> 7 [] c = "8" -> 8 [] c = "9" -> 9

DigitChar(n) ==
    CASE n = 0 -> "0" [] n = 1 -> "1" [] n = 2 -> "2" [] n = 3 -> "3" [] n = 4 -> "4"
      [] n = 5 -> "5" [] n = 6 -> "6" [] n = 7 -> "7" [] n = 8 -> "8" [] n = 9 -> "9"

\* int(s) for a string of digits
RECURSIVE ParseInt(_)
ParseInt(s) ==
    IF s = <<>> THEN 0
    ELSE 10 * ParseInt(SubSeq(s, 1, Len(s) - 1)) + DigitValue(s[Len(s)])

\* str(n) for n >= 0
RECURSIVE FormatInt(_)
FormatInt(n) ==
    IF n < 10 THEN <<DigitChar(n)>>
    ELSE FormatInt(n \div 10) \o <<DigitChar(n % 10)>>

\* f"{n:05d}"
RECURSIVE ZeroPad(_, _)
ZeroPad(s, width) == IF Len(s) >= width THEN s ELSE ZeroPad(<<"0">> \o s, width)

\* The canonical code with six digits completed like four and five.
CanonicalCodeWide(stock_code) ==
    LET original_code == Strip(stock_code) IN
    IF IsDigit(original_code) /\ 4 <= Len(original_code) /\ Len(original_code) <= 6
    THEN HKPrefix \o ZeroPad(FormatInt(ParseInt(original_code)), 5)
    ELSE original_code

\* The stock_code get_kline_data works with: lines 176-184.
CanonicalCode(stock_code) ==
    LET original_code == Strip(stock_code) IN
    IF IsDigit(original_code) /\ 4 <= Len(original_code) /\ Len(original_code) <= 5
    THEN HKPrefix \o ZeroPad(FormatInt(ParseInt(original_code)), 5)
    ELSE original_code

\* What an adapter hands back: a frame, None, or an exception that leaves it.
GotFrame(df) == [kind |-> "frame", df |-> df]
GotNone == [kind |-> "none"]
Raised(exc) == [kind |-> "raise", exc |-> exc]

\* Every answer of the provider behind an adapter that starts, and an adapter
\* that does not start.
RouterEnvs ==
    [init : {"ok"}, fetch : {"rows", "empty", "error", "raise"}, version : {1}]
        \cup [init : {"fail"}, fetch : {"rows"}, version : {1}]

\* FutuDataFetcher.get_history_kline: no try; an empty table passes the
\* RET_OK branch and fails at result_df['date'].iloc[0] of line 104.
FutuHistoryKline(start_date, end_date, env) ==
    CASE env.fetch = "rows" -> GotFrame(Frame(StdColumns, "str", Bars(start_date, end_date, env.version)))
      [] env.fetch = "empty" -> Raised("IndexError")
      [] env.fetch = "error" -> GotNone
      [] env.fetch = "raise" -> Raised("ConnectionError")

\* FinancialDatasetsAPI.get_stock_prices: everything is inside its try.
FinancialStockPrices(start_date, end_date, env) ==
    CASE env.fetch = "rows" -> GotFrame(Frame(StdColumns, "str", Bars(start_date, end_date, env.version)))
      [] env.fetch = "empty" -> GotNone
      [] env.fetch = "error" -> GotNone
      [] env.fetch = "raise" -> GotNone

\* TushareDataFetcher.get_stock_code_with_exchange accepts a code with a dot
\* or one that starts with 60, 68, 00 or 30, and raises for any other.
HasExchange(stock_code) ==
    \/ \E i \in 1..Len(stock_code) : stock_code[i] = "."
    \/ \E p \in {<<"6", "0">>, <<"6", "8">>, <<"0", "0">>, <<"3", "0">>} : StartsWith(stock_code, p)

\* TushareDataFetcher.get_history_kline: the exchange suffix is computed
\* outside the try, the request inside; the dates stay timestamps.
TushareHistoryKline(stock_code, start_date, end_date, env) ==
    IF ~HasExchange(stock_code) THEN Raised("ValueError")
    ELSE CASE env.fetch = "rows" ->
                 GotFrame(Frame(StdColumns, "datetime", Bars(start_date, end_date, env.version)))
           [] env.fetch = "empty" -> GotNone
           [] env.fetch = "error" -> GotNone
           [] env.fetch = "raise" -> GotNone

\* DataManager._init_futu: the answer and the manager it leaves.
init_futu(d, env) ==
    IF ~d.futu_available THEN [ok |-> FALSE, raised |-> FALSE, dm |-> d]
    ELSE IF ~d.futu_connected /\ env.init = "fail"
         THEN [ok |-> FALSE, raised |-> FALSE, dm |-> [d EXCEPT !.futu_fetcher = TRUE]]
         ELSE [ok |-> TRUE, raised |-> FALSE,
               dm |-> [d EXCEPT !.futu_fetcher = TRUE, !.futu_connected = TRUE]]

\* DataManager._init_financial: no key or a constructor that raises turns
\* the adapter off for good.
init_financial(d, env) ==
    IF ~d.financial_available THEN [ok |-> FALSE, raised |-> FALSE, dm |-> d]
    ELSE IF ~d.financial_api /\ env.init = "fail"
         THEN [ok |-> FALSE, raised |-> FALSE, dm |-> [d EXCEPT !.financial_available = FALSE]]
         ELSE [ok |-> TRUE, raised |-> FALSE, dm |-> [d EXCEPT !.financial_api = TRUE]]

\* DataManager._init_tushare: TushareDataFetcher() is called with no try, and
\* it raises without a token or a connection.
init_tushare(d, env) ==
    IF d.tushare_available /\ ~d.tushare_fetcher
    THEN IF env.init = "fail"
         THEN [ok |-> FALSE, raised |-> TRUE, dm |-> d]
         ELSE [ok |-> TRUE, raised |-> FALSE, dm |-> [d EXCEPT !.tushare_fetcher = TRUE]]
    ELSE [ok |-> d.tushare_available, raised |-> FALSE, dm |-> d]

\* Step 2 of get_kline_data, lines 205-238: the adapter of the market, its
\* initialisation first.  steps lists the collaborators in the order called.
Provide(d, market, stock_code, start_date, end_date, env) ==
    LET i == CASE market = "HK" -> init_futu(d, env)
               [] market = "US" -> init_financial(d, env)
               [] market = "A" -> init_tushare(d, env)
        name == CASE market = "HK" -> "futu" [] market = "US" -> "financial"
                  [] market = "A" -> "tushare"
        got == CASE market = "HK" -> FutuHistoryKline(start_date, end_date, env)
                 [] market = "US" -> FinancialStockPrices(start_date, end_date, env)
                 [] market = "A" -> TushareHistoryKline(stock_code, start_date, end_date, env)
    IN  IF i.raised THEN [got |-> Raised("ValueError"), dm |-> i.dm, steps |-> <<<<name, "init">>>>]
        ELSE IF ~i.ok THEN [got |-> GotNone, dm |-> i.dm, steps |-> <<<<name, "init">>>>]
        ELSE [got |-> got, dm |-> i.dm, steps |-> <<<<name, "init">>, <<name, "fetch">>>>]

\* get_kline_data that goes to the adapter without looking at the cache.
GetKlineDataProviderFirst(d, stock_code, start_date, end_date, force_update, env) ==
    LET code == CanonicalCode(stock_code)
        p == Provide(d, get_market_type(code), code, start_date, end_date, env)
    IN  [ret |-> p.got, dm |-> p.dm, stored |-> p.got.kind = "frame" /\ d.use_cache,
         steps |-> p.steps \o (IF p.got.kind = "frame" /\ d.use_cache
                               THEN <<<<"cache", "save">>>> ELSE <<>>)]

\* get_kline_data without step 3.
GetKlineDataNoSave(d, stock_code, start_date, end_date, force_update, env) ==
    LET code == CanonicalCode(stock_code)
        consult == d.use_cache /\ ~force_update
        cached_data == Load(code, start_date, end_date)
        p == Provide(d, get_market_type(code), code, start_date, end_date, env)
    IN  IF consult /\ ~cached_data.is_none
        THEN [ret |-> GotFrame(cached_data), dm |-> d, stored |-> FALSE,
              steps |-> <<<<"cache", "load">>>>]
        ELSE [ret |-> p.got, dm |-> p.dm, stored |-> FALSE,
              steps |-> (IF consult THEN <<<<"cache", "load">>>> ELSE <<>>) \o p.steps]

\* DataManager.get_kline_data: lines 146-253.
GetKlineData(d, stock_code, start_date, end_date, force_update, env) ==
    LET code == CanonicalCode(stock_code)
        market == get_market_type(code)
        consult == d.use_cache /\ ~force_update
        cached_data == Load(code, start_date, end_date)
        p == Provide(d, market, code, start_date, end_date, env)
    IN  IF consult /\ ~cached_data.is_none
        THEN [ret |-> GotFrame(cached_data), dm |-> d, stored |-> FALSE,
              steps |-> <<<<"cache", "load">>>>]
        ELSE [ret |-> p.got, dm |-> p.dm,
              stored |-> p.got.kind = "frame" /\ d.use_cache,
              steps |-> (IF consult THEN <<<<"cache", "load">>>> ELSE <<>>) \o p.steps
                        \o (IF p.got.kind = "frame" /\ d.use_cache
                            THEN <<<<"cache", "save">>>> ELSE <<>>)]

get_kline_data(stock_code, start_date, end_date, force_update, env) ==
    LET r == GetKlineData(dm, stock_code, start_date, end_date, force_update, env)
        code == CanonicalCode(stock_code)
        cache_path == get_cache_path(code, start_date, end_date)
        cache_key == CacheKey(code, start_date, end_date)
        saved == r.stored /\ Len(r.ret.df.rows) # 0 /\ "date" \in SeqRange(r.ret.df.columns)
    IN  /\ dm' = r.dm
        /\ files' = IF saved THEN DictSet(files, cache_path, to_csv(r.ret.df)) ELSE files
        /\ metadata' = IF saved
                       THEN DictSet(metadata, cache_key,
                                    [stock_code |-> code, start_date |-> start_date,
                                     end_date |-> end_date, rows |-> Len(r.ret.df.rows),
                                     file_path |-> cache_path])
                       ELSE metadata
        /\ call' = [op |-> "get_kline_data", stock_code |-> stock_code, code |-> code,
                    market |-> get_market_type(code),
                    start_date |-> start_date, end_date |-> end_date,
                    force_update |-> force_update, env |-> env,
                    use_cache |-> dm.use_cache,
                    ret |-> r.ret, steps |-> r.steps,
                    held |-> IF cache_path \in DOMAIN files THEN files[cache_path]
                             ELSE EmptyFile,
                    cache_written |-> files' # files \/ metadata' # metadata,
                    prev |-> IF /\ call.op = "get_kline_data"
                                /\ call.code = code
                                /\ call.start_date = start_date
                                /\ call.end_date = end_date
                             THEN [op |-> "get_kline_data", ret |-> call.ret,
                                   steps |-> call.steps]
                             ELSE Idle]
        /\ UNCHANGED <<riskVars, thr, us_files, us_metadata, kelly, strategy>>
        /\ UNCHANGED schedVars

\* The codes asked for: a US ticker, a Hong Kong code in full and as bare
\* digits, and two six-digit codes, one of an exchange the A-share adapter
\* does not know.
SH600519 == <<"6", "0", "0", "5", "1", "9">>
BJ830799 == <<"8", "3", "0", "7", "9", "9">>
RouterCodes == {TSLA, HK0700, Bare0700, SH600519, BJ830799}

InitRouter ==
    /\ today = 0
    /\ last_reset_date = 0
    /\ daily_trades = 0
    /\ daily_buy_amount = 0
    /\ daily_sell_amount = 0
    /\ trade_history = <<>>
    /\ call = Idle
    /\ thr = <<>>
    /\ clock = [day |-> 0, past |-> FALSE]
    /\ tasks = <<>>
    /\ jobs = <<>>
    /\ running = FALSE
    /\ loops = [t \in LoopIds |-> NoLoop]
    /\ on_signal_callback = FALSE
    /\ on_error_callback = FALSE
    /\ active_strategies = <<>>
    /\ files = <<>>
    /\ metadata = <<>>
    /\ us_files = <<>>
    /\ us_metadata = <<>>
    /\ \E use_cache \in BOOLEAN : dm = NewDataManager(use_cache, TRUE, TRUE, TRUE)
    /\ kelly = DefaultKelly
    /\ strategy = NewMomentum(TRUE, TRUE, FALSE)

NextRouter ==
    \/ \E stock_code \in RouterCodes, force_update \in BOOLEAN, env \in RouterEnvs :
          get_kline_data(stock_code, 1, MaxDate, force_update, env)
    \/ \E stock_code \in CacheCodes : clear_cache(stock_code)

SpecRouter == InitRouter /\ [][NextRouter]_vars

(***************************************************************************)
(* Classification on its own: the first lines of get_kline_data, applied   *)
(* to one ticker string after another.                                     *)
(***************************************************************************)
\* Strings of zeros and sevens of a given length.
RECURSIVE DigitStrings(_)
DigitStrings(n) ==
    IF n = 0 THEN {<<>>}
    ELSE {<<c>> \o s : c \in {"0", "7"}, s \in DigitStrings(n - 1)}

MaxDigits == 7

\* The ticker strings classified: nothing, digits and letters, behind no
\* prefix, a blank or a market prefix, with and without a blank at the end.
ClassifyBodies ==
    UNION {DigitStrings(n) : n \in 0..MaxDigits}
        \cup {TSLA, <<"A">>, <<"0", "7", "A", "0">>, <<"0", "7", " ", "0", "0">>}
ClassifyPrefixes == {<<>>, <<" ">>, HKPrefix, <<"h", "k", ".">>, <<"S", "H", ".">>}
ClassifyCodes ==
    {p \o b \o e : p \in ClassifyPrefixes, b \in ClassifyBodies, e \in {<<>>, <<" ">>}}

\* Lines 176-186 of get_kline_data: the canonical code and its market, with
\* the market get_market_type gives the string as it came.
classify(stock_code) ==
    /\ call' = [op |-> "classify", stock_code |-> stock_code,
                code |-> CanonicalCode(stock_code),
                market |-> get_market_type(CanonicalCode(stock_code)),
                market_given |-> get_market_type(stock_code)]
    /\ UNCHANGED <<riskVars, thr>>
    /\ UNCHANGED schedVars
    /\ UNCHANGED <<cacheVars, serviceVars>>

\* The caller takes the result in hand and goes on.
take_result ==
    /\ call.op \in {"classify", "calculate_position"}
    /\ call' = Idle
    /\ UNCHANGED <<riskVars, thr>>
    /\ UNCHANGED schedVars
    /\ UNCHANGED <<cacheVars, serviceVars>>

NextClassify ==
    \/ call = Idle /\ \E stock_code \in ClassifyCodes : classify(stock_code)
    \/ take_result

SpecClassify == Init /\ [][NextClassify]_vars

(***************************************************************************)
(* utils/kelly_calculator.py: KellyCalculator.                             *)
(***************************************************************************)
MaxTrades == 5

RMax(a, b) == IF RLess(a, b) THEN b ELSE a
RMin(a, b) == IF RLess(b, a) THEN b ELSE a

\* np.clip(x, lo, hi) = minimum(maximum(x, lo), hi)
Clip(x, lo, hi) == RMin(RMax(x, lo), hi)

\* KellyCalculator._adjust_win_rate: lines 132-151.
adjust_win_rate(k, signal_strength) ==
    Clip(RAdd(k.win_rate, RMul(RSub(signal_strength, Rat(1, 2)), Rat(2, 10))),
         Rat(3, 10), Rat(8, 10))

\* KellyCalculator._kelly_formula: lines 109-130.  With b = 0 the division
\* of line 127 raises when p is a Python float; when p is the numpy float
\* _adjust_win_rate returns, it gives -inf or nan, and max(0.0, .) gives 0.0.
kelly_formula(win_rate, avg_win, avg_loss, numpy) ==
    IF RLeq(avg_loss, RZero) THEN GotFrame(RZero)
    ELSE LET p == win_rate
             q == RSub(ROne, win_rate)
             b == RDiv(avg_win, avg_loss)
         IN  IF b = RZero
             THEN IF numpy THEN GotFrame(RZero) ELSE Raised("ZeroDivisionError")
             ELSE GotFrame(RMax(RZero, RDiv(RSub(RMul(p, b), q), b)))

\* calculate_position that returns the conservative position unclipped.
CalculatePositionUnclipped(k, signal_strength, adjust_for_signal) ==
    LET adjusted_win_rate == IF adjust_for_signal
                             THEN adjust_win_rate(k, signal_strength)
                             ELSE k.win_rate
        kelly_position == kelly_formula(adjusted_win_rate, k.avg_win, k.avg_loss,
                                        adjust_for_signal)
    IN  IF kelly_position.kind = "raise" THEN kelly_position
        ELSE GotFrame(RMul(kelly_position.df, k.kelly_fraction))

\* KellyCalculator.calculate_position: lines 65-107.
CalculatePosition(k, signal_strength, adjust_for_signal) ==
    LET adjusted_win_rate == IF adjust_for_signal
                             THEN adjust_win_rate(k, signal_strength)
                             ELSE k.win_rate
        kelly_position == kelly_formula(adjusted_win_rate, k.avg_win, k.avg_loss,
                                        adjust_for_signal)
    IN  IF kelly_position.kind = "raise" THEN kelly_position
        ELSE GotFrame(Clip(RMul(kelly_position.df, k.kelly_fraction),
                           k.min_position, k.max_position))

calculate_position(signal_strength, adjust_for_signal) ==
    /\ call' = [op |-> "calculate_position", signal_strength |-> signal_strength,
                adjust_for_signal |-> adjust_for_signal,
                ret |-> CalculatePosition(kelly, signal_strength, adjust_for_signal)]
    /\ UNCHANGED <<riskVars, thr, dm, kelly, strategy>>
    /\ UNCHANGED schedVars
    /\ UNCHANGED cacheVars

\* KellyCalculator.add_trade: lines 153-172.  The list has no bound of its
\* own; the model stops at MaxTrades.
add_trade(profit) ==
    /\ Len(kelly.trade_history) < MaxTrades
    /\ kelly' = [kelly EXCEPT !.trade_history =
                    Append(@, [profit |-> profit, is_win |-> RLess(RZero, profit)])]
    /\ call' = [op |-> "add_trade", profit |-> profit, before |-> kelly]
    /\ UNCHANGED <<riskVars, thr, dm, strategy>>
    /\ UNCHANGED schedVars
    /\ UNCHANGED cacheVars

\* trades[-lookback:]
Recent(trades, lookback) ==
    IF Len(trades) <= lookback THEN trades
    ELSE SubSeq(trades, Len(trades) - lookback + 1, Len(trades))

RECURSIVE SumProfit(_)
SumProfit(trades) ==
    IF trades = <<>> THEN RZero ELSE RAdd(Head(trades).profit, SumProfit(Tail(trades)))

\* np.mean of the profits of a non-empty list of trades
MeanProfit(trades) == RDiv(SumProfit(trades), Rat(Len(trades), 1))

IsWin(t) == t.is_win
IsLoss(t) == ~t.is_win

\* KellyCalculator.update_statistics: lines 174-215, the object it leaves.
UpdateStatistics(k, lookback) ==
    IF Len(k.trade_history) < 5 THEN k
    ELSE LET recent_trades == Recent(k.trade_history, lookback)
             wins == SelectSeq(recent_trades, IsWin)
             losses == SelectSeq(recent_trades, IsLoss)
             new_win_rate == Rat(Len(wins), Len(recent_trades))
             new_avg_win == IF wins # <<>> THEN MeanProfit(wins) ELSE k.avg_win
             mean_loss == MeanProfit(losses)
             new_avg_loss == IF losses # <<>>
                             THEN Rat(Abs(mean_loss.n), mean_loss.d)
                             ELSE k.avg_loss
             alpha == Rat(3, 10)
             keep == RSub(ROne, alpha)
         IN  [k EXCEPT !.win_rate = RAdd(RMul(alpha, new_win_rate), RMul(keep, k.win_rate)),
                       !.avg_win = RAdd(RMul(alpha, new_avg_win), RMul(keep, k.avg_win)),
                       !.avg_loss = RAdd(RMul(alpha, new_avg_loss), RMul(keep, k.avg_loss))]

\* Nothing in the repository calls update_statistics; the model lets a
\* caller run it once on an object.
update_statistics(lookback) ==
    /\ ~kelly.updated
    /\ kelly' = [UpdateStatistics(kelly, lookback) EXCEPT !.updated = TRUE]
    /\ call' = [op |-> "update_statistics", lookback |-> lookback, before |-> kelly]
    /\ UNCHANGED <<riskVars, thr, dm, strategy>>
    /\ UNCHANGED schedVars
    /\ UNCHANGED cacheVars

\* The calculators the strategy or a user can build: statistics with no win
\* or no loss on record among them, and a floor above zero.
KellyConfigs ==
    {NewKelly(win_rate, avg_win, avg_loss, Rat(25, 100), ROne, min_position) :
        win_rate \in {Rat(30, 100), Rat(55, 100)},
        avg_win \in {RZero, Rat(5, 100)},
        avg_loss \in {RZero, Rat(2, 100), Rat(10, 100)},
        min_position \in {RZero, Rat(10, 100)}}

Strengths == {RZero, Rat(1, 2), ROne}
Profits == {Rat(-10, 100), Rat(10, 100)}
Lookbacks == {3, 30}

InitKelly ==
    /\ today = 0
    /\ last_reset_date = 0
    /\ daily_trades = 0
    /\ daily_buy_amount = 0
    /\ daily_sell_amount = 0
    /\ trade_history = <<>>
    /\ call = Idle
    /\ thr = <<>>
    /\ clock = [day |-> 0, past |-> FALSE]
    /\ tasks = <<>>
    /\ jobs = <<>>
    /\ running = FALSE
    /\ loops = [t \in LoopIds |-> NoLoop]
    /\ on_signal_callback = FALSE
    /\ on_error_callback = FALSE
    /\ active_strategies = <<>>
    /\ files = <<>>
    /\ metadata = <<>>
    /\ us_files = <<>>
    /\ us_metadata = <<>>
    /\ dm = NewDataManager(TRUE, TRUE, TRUE, TRUE)
    /\ kelly \in KellyConfigs
    /\ strategy = NewMomentum(TRUE, TRUE, FALSE)

NextKelly ==
    \/ /\ call.op # "calculate_position"
       /\ \E signal_strength \in Strengths, adjust_for_signal \in BOOLEAN :
             calculate_position(signal_strength, adjust_for_signal)
    \/ take_result
    \/ call.op # "calculate_position" /\ \E profit \in Profits : add_trade(profit)
    \/ call.op # "calculate_position" /\ \E lookback \in Lookbacks : update_statistics(lookback)

SpecKelly == InitKelly /\ [][NextKelly]_vars

(***************************************************************************)
(* core/strategy_engine.py: activation with parameters.  A parameter       *)
(* argument is None, a dict, or something that is not a mapping; of a dict *)
(* the model keeps one entry, tsf_period, a number or a string.            *)
(***************************************************************************)
NoneParams == [kind |-> "none"]
DictParams(tsf_period) == [kind |-> "dict", tsf_period |-> tsf_period]
ListParams == [kind |-> "list"]

\* A number and a string as values of a parameter.
IntValue(v) == [type |-> "int", value |-> v]
StrValue(s) == [type |-> "str", text |-> s]

\* TSFLSMAStrategy.get_default_params
DefaultParams == DictParams(IntValue(9))

ParamArgs ==
    {NoneParams, DictParams(IntValue(9)), DictParams(IntValue(5)),
     DictParams(StrValue("nine")), ListParams}

\* BaseStrategy.__init__(**params): keeps the keyword arguments as they are.
\* The ** of the call raises TypeError for an argument that is not a mapping.
NewStrategy(params) ==
    IF params.kind = "dict" THEN GotFrame(params) ELSE Raised("TypeError")

\* StrategyEngine.activate_strategy: lines 154-190.
ActivateStrategy(active, stock_code, strategy_name, params) ==
    IF strategy_name \notin strategy_classes
    THEN [ret |-> Raised("ValueError"), active |-> active]
    ELSE LET given == IF params = NoneParams THEN DefaultParams ELSE params
             strategy_instance == NewStrategy(given)
         IN  IF strategy_instance.kind = "raise"
             THEN [ret |-> strategy_instance, active |-> active]
             ELSE [ret |-> strategy_instance,
                   active |-> activate_strategy(active, stock_code, strategy_name)]

activate(stock_code, strategy_name, params) ==
    LET done == ActivateStrategy(active_strategies, stock_code, strategy_name, params)
    IN  /\ active_strategies' = done.active
        /\ call' = [op |-> "activate_strategy", stock_code |-> stock_code,
                    strategy_name |-> strategy_name, params |-> params,
                    ret |-> done.ret, before |-> active_strategies]
        /\ UNCHANGED <<riskVars, thr>>
        /\ UNCHANGED <<clock, tasks, jobs, running, loops, on_signal_callback,
                       on_error_callback>>
        /\ UNCHANGED <<cacheVars, serviceVars>>

\* StrategyEngine.deactivate_strategy: lines 274-290.
deactivate(stock_code, strategy_name) ==
    /\ active_strategies' = SelectSeq(active_strategies,
                                      LAMBDA key : key # StrategyKey(stock_code, strategy_name))
    /\ call' = [op |-> "deactivate_strategy", stock_code |-> stock_code,
                strategy_name |-> strategy_name]
    /\ UNCHANGED <<riskVars, thr>>
    /\ UNCHANGED <<clock, tasks, jobs, running, loops, on_signal_callback,
                   on_error_callback>>
    /\ UNCHANGED <<cacheVars, serviceVars>>

NextEngine ==
    \/ \E stock_code \in SchedStocks, strategy_name \in SchedStrategies, params \in ParamArgs :
          activate(stock_code, strategy_name, params)
    \/ \E stock_code \in SchedStocks, strategy_name \in SchedStrategies :
          deactivate(stock_code, strategy_name)

SpecEngine == Init /\ [][NextEngine]_vars

(***************************************************************************)
(* strategies/: analyze(df) of the trend-regression, MACD and RSI          *)
(* strategies, on the closing prices of df.  call holds the series a       *)
(* caller has in hand, or the result of the latest analyze.  polyfit, ewm  *)
(* and rolling means are computed exactly, as fractions.                   *)
(***************************************************************************)
MaxBars == 7

NoSignal == [kind |-> "none"]
Signal(type, current_price, indicators) ==
    [kind |-> "signal", type |-> type, current_price |-> current_price,
     indicators |-> indicators]

\* data[-n:] for n <= Len(data)
LastBars(data, n) == SubSeq(data, Len(data) - n + 1, Len(data))

RECURSIVE SumOver(_, _)
\* the sum of f[i] for i in 1..n
SumOver(f, n) == IF n = 0 THEN 0 ELSE f[n] + SumOver(f, n - 1)

\* np.polyfit(np.arange(len(data)), data, 1) for two points or more: slope
\* and intercept of the least-squares line.
PolyFit(data) ==
    LET n == Len(data)
        sx == SumOver([i \in 1..n |-> i - 1], n)
        sxx == SumOver([i \in 1..n |-> (i - 1) * (i - 1)], n)
        sy == SumOver(data, n)
        sxy == SumOver([i \in 1..n |-> (i - 1) * data[i]], n)
        slope == Rat(n * sxy - sx * sy, n * sxx - sx * sx)
    IN  [slope |-> slope,
         intercept |-> RDiv(RSub(Rat(sy, 1), RMul(slope, Rat(sx, 1))), Rat(n, 1))]

\* Mutant: the short line read at its last bar instead of one bar ahead.
TSFValueAtLastBar(closes, tsf_period) ==
    LET coeffs == PolyFit(LastBars(closes, tsf_period))
    IN  RAdd(RMul(coeffs.slope, Rat(tsf_period - 1, 1)), coeffs.intercept)

\* tsf_values[-1]: lines 49-59.
TSFValue(closes, tsf_period) ==
    LET coeffs == PolyFit(LastBars(closes, tsf_period))
    IN  RAdd(RMul(coeffs.slope, Rat(tsf_period, 1)), coeffs.intercept)

\* lsma_values[-1]: lines 62-72.
LSMAValue(closes, lsma_period) ==
    LET coeffs == PolyFit(LastBars(closes, lsma_period))
    IN  RAdd(RMul(coeffs.slope, Rat(lsma_period - 1, 1)), coeffs.intercept)

IntMax(a, b) == IF a < b THEN b ELSE a

\* TSFLSMAStrategy.analyze: lines 25-132.  The prices hold no NaN, so the
\* test of line 79 never fires on a series that is long enough.
AnalyzeTSF(params, closes) ==
    IF Len(closes) < IntMax(params.tsf_period, params.lsma_period) THEN NoSignal
    ELSE LET tsf == TSFValue(closes, params.tsf_period)
             lsma == LSMAValue(closes, params.lsma_period)
             diff == RSub(tsf, lsma)
             buy_threshold == IF params.use_percent
                              THEN RMul(lsma, RDiv(params.buy_threshold_pct, Rat(100, 1)))
                              ELSE params.buy_threshold
             sell_threshold == IF params.use_percent
                               THEN RMul(lsma, RDiv(params.sell_threshold_pct, Rat(100, 1)))
                               ELSE params.sell_threshold
             signal_type == IF RLess(buy_threshold, diff) THEN "BUY"
                            ELSE IF RLess(diff, RSub(RZero, sell_threshold)) THEN "SELL"
                            ELSE "HOLD"
         IN  Signal(signal_type, closes[Len(closes)],
                    [tsf |-> tsf, lsma |-> lsma, diff |-> diff])

RECURSIVE Ewm(_, _)
\* data.ewm(span=period, adjust=False).mean() on a sequence of fractions
Ewm(data, period) ==
    IF Len(data) <= 1 THEN data
    ELSE LET alpha == Rat(2, period + 1)
             before == Ewm(SubSeq(data, 1, Len(data) - 1), period)
         IN  Append(before,
                    RAdd(RMul(alpha, data[Len(data)]),
                         RMul(RSub(ROne, alpha), before[Len(before)])))

\* MACDStrategy._macd: lines 28-40.
Macd(closes, fast, slow, signal) ==
    LET data == [i \in 1..Len(closes) |-> Rat(closes[i], 1)]
        ema_fast == Ewm(data, fast)
        ema_slow == Ewm(data, slow)
        macd_line == [i \in 1..Len(data) |-> RSub(ema_fast[i], ema_slow[i])]
        signal_line == Ewm(macd_line, signal)
    IN  [macd |-> macd_line, signal |-> signal_line,
         histogram |-> [i \in 1..Len(data) |-> RSub(macd_line[i], signal_line[i])]]

\* Mutant: the sign of the histogram alone, without the previous bar.
AnalyzeMACDNoPrevious(params, closes) ==
    IF Len(closes) < params.slow_period + params.signal_period THEN NoSignal
    ELSE LET macd_data == Macd(closes, params.fast_period, params.slow_period,
                               params.signal_period)
             n == Len(closes)
             macd == macd_data.macd[n]
             signal == macd_data.signal[n]
             histogram == macd_data.histogram[n]
             signal_type ==
                 IF RLess(signal, macd) /\ RLess(params.threshold, histogram) THEN "BUY"
                 ELSE IF RLess(macd, signal)
                         /\ RLess(histogram, RSub(RZero, params.threshold)) THEN "SELL"
                 ELSE "HOLD"
         IN  Signal(signal_type, closes[n],
                    [macd |-> macd, signal |-> signal, histogram |-> histogram])

\* MACDStrategy.analyze: lines 42-109.
AnalyzeMACD(params, closes) ==
    IF Len(closes) < params.slow_period + params.signal_period THEN NoSignal
    ELSE LET macd_data == Macd(closes, params.fast_period, params.slow_period,
                               params.signal_period)
             n == Len(closes)
             macd == macd_data.macd[n]
             signal == macd_data.signal[n]
             histogram == macd_data.histogram[n]
             prev_histogram == IF n > 1 THEN macd_data.histogram[n - 1] ELSE RZero
             signal_type ==
                 IF RLess(signal, macd) /\ RLeq(prev_histogram, RZero)
                    /\ RLess(params.threshold, histogram) THEN "BUY"
                 ELSE IF RLess(macd, signal) /\ RLeq(RZero, prev_histogram)
                         /\ RLess(histogram, RSub(RZero, params.threshold)) THEN "SELL"
                 ELSE "HOLD"
         IN  Signal(signal_type, closes[n],
                    [macd |-> macd, signal |-> signal, histogram |-> histogram])

\* Mutant: no test of the length of the series.
AnalyzeRSIAnyLength(params, closes) == Signal("HOLD", 0, [rsi |-> RZero])

\* RSIStrategy.analyze: lines 34-92, with _rsi of lines 23-32.  gain and
\* loss are the means of the rises and of the falls of the last period
\* bars; gain / loss is inf when only loss is 0, which gives 100, and nan
\* when both are 0, which makes analyze return None.
AnalyzeRSI(params, closes) ==
    IF Len(closes) < params.period + 1 THEN NoSignal
    ELSE LET n == Len(closes)
             delta == [i \in 1..params.period |->
                          closes[n - params.period + i] - closes[n - params.period + i - 1]]
             gain == SumOver([i \in 1..params.period |->
                                 IF delta[i] > 0 THEN delta[i] ELSE 0], params.period)
             loss == SumOver([i \in 1..params.period |->
                                 IF delta[i] < 0 THEN -delta[i] ELSE 0], params.period)
         IN  IF gain = 0 /\ loss = 0 THEN NoSignal
             ELSE LET rsi_value == Rat(100 * gain, gain + loss)
                      signal_type ==
                          IF RLess(rsi_value, Rat(params.oversold, 1)) THEN "BUY"
                          ELSE IF RLess(Rat(params.overbought, 1), rsi_value) THEN "SELL"
                          ELSE "HOLD"
                  IN  Signal(signal_type, closes[n], [rsi |-> rsi_value])

\* The parameters the strategies are built with.
TSFParams(tsf_period, lsma_period, use_percent) ==
    [name |-> "TSF-LSMA", tsf_period |-> tsf_period, lsma_period |-> lsma_period,
     buy_threshold_pct |-> Rat(1, 2), sell_threshold_pct |-> Rat(1, 2),
     use_percent |-> use_percent, buy_threshold |-> Rat(1, 2),
     sell_threshold |-> Rat(1, 2)]

MACDParams(fast_period, slow_period, signal_period) ==
    [name |-> "MACD", fast_period |-> fast_period, slow_period |-> slow_period,
     signal_period |-> signal_period, threshold |-> RZero]

RSIParams(period) ==
    [name |-> "RSI", period |-> period, overbought |-> 70, oversold |-> 30]

StrategyParams ==
    {TSFParams(9, 20, TRUE), TSFParams(9, 20, FALSE), TSFParams(3, 5, FALSE),
     MACDParams(1, 3, 3), RSIParams(14), RSIParams(3)}

\* strategy_instance.analyze(df)
Analyze(params, closes) ==
    IF params.name = "TSF-LSMA" THEN AnalyzeTSF(params, closes)
    ELSE IF params.name = "MACD" THEN AnalyzeMACD(params, closes)
    ELSE AnalyzeRSI(params, closes)

\* A series that moves by first each bar for turn bars and by then after.
Ramp(n, first, then, turn) ==
    [i \in 1..n |-> 100 + (IF i <= turn THEN first * i
                           ELSE first * turn + then * (i - turn))]

Ramps ==
    {Ramp(n, first, then, turn) :
        n \in 18..21, first \in {-1, 0, 1}, then \in {-1, 0, 1}, turn \in {0, 12, 17}}

Series(closes) == [op |-> "series", closes |-> closes]

InitStrategies ==
    /\ today = 0
    /\ last_reset_date = 0
    /\ daily_trades = 0
    /\ daily_buy_amount = 0
    /\ daily_sell_amount = 0
    /\ trade_history = <<>>
    /\ call \in {Series(closes) : closes \in Ramps \cup {<<>>}}
    /\ thr = <<>>
    /\ clock = [day |-> 0, past |-> FALSE]
    /\ tasks = <<>>
    /\ jobs = <<>>
    /\ running = FALSE
    /\ loops = [t \in LoopIds |-> NoLoop]
    /\ on_signal_callback = FALSE
    /\ on_error_callback = FALSE
    /\ active_strategies = <<>>
    /\ files = <<>>
    /\ metadata = <<>>
    /\ us_files = <<>>
    /\ us_metadata = <<>>
    /\ dm = NewDataManager(TRUE, TRUE, TRUE, TRUE)
    /\ kelly = DefaultKelly
    /\ strategy = NewMomentum(TRUE, TRUE, FALSE)

\* The day's bar joins the series.
next_bar(close) ==
    /\ call.op = "series"
    /\ Len(call.closes) < MaxBars
    /\ call' = Series(Append(call.closes, close))
    /\ UNCHANGED <<riskVars, thr>>
    /\ UNCHANGED schedVars
    /\ UNCHANGED <<cacheVars, serviceVars>>

\* The fractions of the exponential averages double their denominators
\* with every bar: MACD is evaluated on the series of up to MaxBars bars.
analyze(params) ==
    /\ call.op = "series"
    /\ params.name = "MACD" => Len(call.closes) <= MaxBars
    /\ call' = [op |-> "analyze", params |-> params, closes |-> call.closes,
                ret |-> Analyze(params, call.closes)]
    /\ UNCHANGED <<riskVars, thr>>
    /\ UNCHANGED schedVars
    /\ UNCHANGED <<cacheVars, serviceVars>>

\* The caller goes on with the series it has.
analyzed ==
    /\ call.op = "analyze"
    /\ call' = Series(call.closes)
    /\ UNCHANGED <<riskVars, thr>>
    /\ UNCHANGED schedVars
    /\ UNCHANGED <<cacheVars, serviceVars>>

NextStrategies ==
    \/ \E close \in {1, 2, 3} : next_bar(close)
    \/ \E params \in StrategyParams : analyze(params)
    \/ analyzed

SpecStrategies == InitStrategies /\ [][NextStrategies]_vars

(***************************************************************************)
(* strategies/momentum_sentiment_strategy.py: MomentumSentimentStrategy,   *)
(* the composite strategy the engine and the backtest widget import.  The  *)
(* indicator values of a bar are inputs; backtrader fills or refuses the   *)
(* order of a bar, and notifies the strategy, before it calls next() for   *)
(* the bar after.                                                          *)
(***************************************************************************)
\* _calculate_technical_signal: lines 307-339, with rsi_threshold 45 and
\* adx_threshold 15.
calculate_technical_signal(bar) ==
    LET rsi_strength == IF RLess(Rat(45, 1), bar.rsi)
                        THEN RMin(RDiv(RSub(bar.rsi, Rat(45, 1)), Rat(100 - 45, 1)), ROne)
                        ELSE RZero
        macd_strength == IF RLess(RZero, bar.macd_diff)
                         THEN RMin(RDiv(bar.macd_diff, Rat(5, 1)), ROne)
                         ELSE RZero
        adx_strength == IF RLess(Rat(15, 1), bar.adx)
                        THEN RMin(RDiv(RSub(bar.adx, Rat(15, 1)), Rat(50 - 15, 1)), ROne)
                        ELSE RZero
    IN  RDiv(RAdd(RAdd(rsi_strength, macd_strength), adx_strength), Rat(3, 1))

\* _calculate_relative_strength_signal: lines 341-353.
calculate_relative_strength_signal(s, bar) ==
    IF ~s.spy_available \/ bar.spy_rsi = RZero THEN Rat(1, 2)
    ELSE LET rs == RDiv(bar.rsi, bar.spy_rsi)
             normalized_rs == RDiv(RSub(rs, Rat(1, 2)), Rat(3, 2))
         IN  RMax(RZero, RMin(normalized_rs, ROne))

\* _combine_signals: lines 386-414, with the weights 0.5, 0.3 and 0.2.
combine_signals(technical, rs, sentiment) ==
    LET weighted_signal ==
            RAdd(RAdd(RMul(technical, Rat(5, 10)), RMul(rs, Rat(3, 10))),
                 RMul(RDiv(RAdd(sentiment, ROne), Rat(2, 1)), Rat(2, 10)))
        synergy_bonus ==
            IF RLess(Rat(6, 10), technical) /\ RLess(Rat(6, 10), rs)
               /\ RLess(Rat(3, 10), sentiment)
            THEN RMul(Rat(15, 100), RMul(technical, rs))
            ELSE RZero
        magnitude == RMin(RAdd(weighted_signal, synergy_bonus), ROne)
    IN  [direction |-> IF RLess(Rat(1, 2), magnitude) THEN "LONG" ELSE "FLAT",
         magnitude |-> magnitude]

\* _calculate_position_size: lines 416-450, with use_kelly and the default
\* win_rate 0.55, avg_win 0.05, avg_loss 0.02, kelly_fraction 0.25 and
\* max_position 0.95.
calculate_position_size(signal_strength) ==
    LET adjusted_win_rate ==
            RMax(Rat(4, 10),
                 RMin(Rat(7, 10),
                      RAdd(Rat(55, 100), RMul(RSub(signal_strength, Rat(1, 2)), Rat(1, 10)))))
        p == adjusted_win_rate
        q == RSub(ROne, p)
        b == RDiv(Rat(5, 100), Rat(2, 100))
        kelly_full == RDiv(RSub(RMul(p, b), q), b)
        kelly_conservative == RMul(kelly_full, Rat(25, 100))
    IN  RMax(RZero, RMin(kelly_conservative, Rat(95, 100)))

\* int(x) of a fraction that is not negative
IntPart(x) == x.n \div x.d

\* What next() leaves: the strategy, why it stopped where it did, and the
\* blended signal when it got as far as computing it.
Stepped(s, outcome, combined) == [strategy |-> s, outcome |-> outcome, combined |-> combined]
NoCombined == [direction |-> "none"]

\* Mutant: next() without the defensive close of lines 225-233.
MomentumNextNoDefence(s, bar) ==
    IF s.order # "none" THEN Stepped(s, "pending", NoCombined)
    ELSE
    LET technical_signal == calculate_technical_signal(bar)
        rs_signal == IF s.use_relative_strength /\ s.spy_available
                     THEN calculate_relative_strength_signal(s, bar)
                     ELSE Rat(1, 2)
        sentiment_signal == IF s.sentiment_enabled THEN bar.sentiment ELSE RZero
        combined_signal == combine_signals(technical_signal, rs_signal, sentiment_signal)
    IN  IF ~s.position
        THEN IF RLess(Rat(6, 10), combined_signal.magnitude)
                /\ IntPart(RDiv(RMul(bar.cash,
                                     calculate_position_size(combined_signal.magnitude)),
                                bar.close)) > 0
             THEN Stepped([s EXCEPT !.order = "buy"], "buy", combined_signal)
             ELSE Stepped(s, "flat", combined_signal)
        ELSE IF RLess(combined_signal.magnitude, Rat(3, 10))
             THEN Stepped([s EXCEPT !.order = "close"], "weak", combined_signal)
             ELSE Stepped(s, "hold", combined_signal)

\* MomentumSentimentStrategy.next: lines 206-305, with spy_oversold 35,
\* trailing_stop set and atr_stop_multiplier 1.5.  The sentiment of a bar is
\* what _get_sentiment_signal returns for it.
MomentumNext(s, bar) ==
    IF s.order # "none" THEN Stepped(s, "pending", NoCombined)
    ELSE IF s.use_relative_strength /\ s.spy_available
            /\ RLess(bar.spy_rsi, Rat(35, 1)) /\ s.position
    THEN Stepped([s EXCEPT !.order = "close"], "defensive", NoCombined)
    ELSE
    LET technical_signal == calculate_technical_signal(bar)
        rs_signal == IF s.use_relative_strength /\ s.spy_available
                     THEN calculate_relative_strength_signal(s, bar)
                     ELSE Rat(1, 2)
        sentiment_signal == IF s.sentiment_enabled THEN bar.sentiment ELSE RZero
        combined_signal == combine_signals(technical_signal, rs_signal, sentiment_signal)
        position_size == calculate_position_size(combined_signal.magnitude)
        size == IntPart(RDiv(RMul(bar.cash, position_size), bar.close))
        new_stop == RSub(bar.close, RMul(bar.atr, Rat(15, 10)))
        stop_price == IF RLess(s.stop_price, new_stop) THEN new_stop ELSE s.stop_price
        stopped == [s EXCEPT !.stop_price = stop_price]
    IN  IF ~s.position
        THEN IF RLess(Rat(6, 10), combined_signal.magnitude)
                /\ RLess(RZero, position_size) /\ size > 0
             THEN Stepped([s EXCEPT !.order = "buy"], "buy", combined_signal)
             ELSE Stepped(s, "flat", combined_signal)
        ELSE IF RLess(bar.close, stop_price)
             THEN Stepped([stopped EXCEPT !.order = "close"], "stop", combined_signal)
        ELSE IF RLess(combined_signal.magnitude, Rat(3, 10))
             THEN Stepped([stopped EXCEPT !.order = "close"], "weak", combined_signal)
             ELSE Stepped(stopped, "hold", combined_signal)

\* backtrader calls next() for a bar.
momentum_next(bar) ==
    /\ call.op # "next"
    /\ strategy.order = "none"
    /\ strategy' = MomentumNext(strategy, bar).strategy
    /\ call' = [op |-> "next", bar |-> bar, before |-> strategy,
                outcome |-> MomentumNext(strategy, bar).outcome,
                combined |-> MomentumNext(strategy, bar).combined]
    /\ UNCHANGED <<riskVars, thr, dm, kelly>>
    /\ UNCHANGED schedVars
    /\ UNCHANGED cacheVars

\* MomentumSentimentStrategy.notify_order: lines 159-196, called when the
\* broker has filled the order at price or refused it.  close() sells the
\* whole position.
momentum_notify_order(status, price, atr) ==
    /\ strategy.order # "none"
    /\ strategy' =
          IF status = "Completed" /\ strategy.order = "buy"
          THEN [strategy EXCEPT !.order = "none", !.position = TRUE,
                                !.stop_price = RSub(price, RMul(atr, Rat(15, 10)))]
          ELSE IF status = "Completed"
          THEN [strategy EXCEPT !.order = "none", !.position = FALSE]
          ELSE [strategy EXCEPT !.order = "none"]
    /\ call' = [op |-> "notify_order", status |-> status, before |-> strategy]
    /\ UNCHANGED <<riskVars, thr, dm, kelly>>
    /\ UNCHANGED schedVars
    /\ UNCHANGED cacheVars

\* next() placed no order: the bar is over.
bar_done ==
    /\ call.op = "next"
    /\ strategy.order = "none"
    /\ call' = Idle
    /\ UNCHANGED <<riskVars, thr>>
    /\ UNCHANGED schedVars
    /\ UNCHANGED <<cacheVars, serviceVars>>

MomentumBars ==
    [rsi : {Rat(30, 1), Rat(72, 1), Rat(100, 1)},
     macd_diff : {Rat(-1, 1), Rat(5, 2), Rat(10, 1)},
     adx : {Rat(10, 1), Rat(50, 1)},
     spy_rsi : {RZero, Rat(30, 1), Rat(50, 1)},
     sentiment : {RZero, ROne},
     close : {Rat(90, 1), Rat(100, 1)},
     atr : {Rat(4, 1)},
     cash : {Rat(100000, 1)}]

InitMomentum ==
    /\ today = 0
    /\ last_reset_date = 0
    /\ daily_trades = 0
    /\ daily_buy_amount = 0
    /\ daily_sell_amount = 0
    /\ trade_history = <<>>
    /\ call = Idle
    /\ thr = <<>>
    /\ clock = [day |-> 0, past |-> FALSE]
    /\ tasks = <<>>
    /\ jobs = <<>>
    /\ running = FALSE
    /\ loops = [t \in LoopIds |-> NoLoop]
    /\ on_signal_callback = FALSE
    /\ on_error_callback = FALSE
    /\ active_strategies = <<>>
    /\ files = <<>>
    /\ metadata = <<>>
    /\ us_files = <<>>
    /\ us_metadata = <<>>
    /\ dm = NewDataManager(TRUE, TRUE, TRUE, TRUE)
    /\ kelly = DefaultKelly
    /\ \E use_relative_strength \in BOOLEAN, spy_available \in BOOLEAN,
          sentiment_enabled \in BOOLEAN :
          strategy = NewMomentum(use_relative_strength, spy_available, sentiment_enabled)

NextMomentum ==
    \/ \E bar \in MomentumBars : momentum_next(bar)
    \/ \E status \in {"Completed", "Margin"} :
          momentum_notify_order(status, Rat(100, 1), Rat(4, 1))
    \/ bar_done

SpecMomentum == InitMomentum /\ [][NextMomentum]_vars

(***************************************************************************)
(* Properties of the risk gate.                                            *)
(***************************************************************************)
Checked == call.op = "check_order"

Min(S) == CHOOSE x \in S : \A y \in S : x <= y

\* The condition under which rule k of the gate turns an order down.
RuleFails(k, order, account_info, positions, trades) ==
    CASE k = 1 -> Amount(order) >
                    (IF StartsWith(order.stock_code, HKPrefix)
                     THEN max_single_amount_hk ELSE max_single_amount)
      [] k = 2 -> trades >= max_daily_trades
      [] k = 3 -> /\ order.direction = "BUY"
                  /\ account_info.given
                  /\ Amount(order) >
                       (IF account_info.cash = 0 THEN account_info.avl_withdrawal_cash
                        ELSE account_info.cash)
      [] k = 4 -> /\ order.direction = "BUY"
                  /\ account_info.given
                  /\ positions.given
                  /\ account_info.total_assets > 0
                  /\ \/ 100 * Amount(order)
                          > max_position_ratio_pct * account_info.total_assets
                     \/ 100 * (SumMarketVal(positions.list) + Amount(order))
                          > max_total_position_pct * account_info.total_assets
      [] k = 5 -> /\ order.direction = "SELL"
                  /\ positions.given
                  /\ LET hits == {i \in 1..Len(positions.list) :
                                      positions.list[i].code = order.stock_code}
                     IN  \/ hits = {}
                         \/ order.qty > CanSellQty(positions.list[Min(hits)])

FailedRules(c) ==
    {k \in 1..5 : RuleFails(k, c.order, c.account_info, c.positions, c.trades)}

\* C1: check_order is an ordered pipeline: an order is rejected exactly when it
\* fails some rule, the rejection carries the lowest-numbered rule it fails, and
\* the inputs only later rules read (account and positions for rules 1 and 2,
\* positions for rule 3) do not change the result.
C1_OrderedPipeline ==
    Checked =>
        /\ LET failed == FailedRules(call)
           IN  IF failed = {} THEN call.ret.is_pass
               ELSE ~call.ret.is_pass /\ call.ret.rule = Min(failed)
        /\ call.ret.rule \in {1, 2} =>
              \A a \in Accounts, p \in PositionArgs :
                  CheckOrder(call.order, a, p, call.trades) = call.ret
        /\ call.ret.rule = 3 =>
              \A p \in PositionArgs :
                  CheckOrder(call.order, call.account_info, p, call.trades) = call.ret

\* An order over its cap on a day whose count is full: two rules fail, the first wins.
C1_Witness ==
    /\ Checked
    /\ {1, 2} \subseteq FailedRules(call)
    /\ call.ret.rule = 1

counters == <<daily_trades, daily_buy_amount, daily_sell_amount>>

\* A step with the effect of update_daily_stats: one entry more in the ledger,
\* one trade more, and the entry's amount added on its side.
RecordedStep ==
    /\ Len(trade_history') = Len(trade_history) + 1
    /\ SubSeq(trade_history', 1, Len(trade_history)) = trade_history
    /\ LET e == trade_history'[Len(trade_history')] IN
          /\ daily_trades' = (IF Stale THEN 0 ELSE daily_trades) + 1
          /\ daily_buy_amount' = (IF Stale THEN 0 ELSE daily_buy_amount)
                                   + (IF e.direction = "BUY" THEN e.amount ELSE 0)
          /\ daily_sell_amount' = (IF Stale THEN 0 ELSE daily_sell_amount)
                                    + (IF e.direction = "BUY" THEN 0 ELSE e.amount)

\* C2: the counters and the ledger change only by update_daily_stats or by the
\* reset to zero that an entry point performs on a new date (the ledger is then
\* left alone); a check_order, accepted or rejected, changes nothing else, and
\* what is recorded is an order check_order has accepted.
C2_CountersChangeTwoWays ==
    [][/\ (counters' # counters \/ trade_history' # trade_history) =>
              \/ RecordedStep
              \/ /\ Stale
                 /\ counters' = <<0, 0, 0>>
                 /\ trade_history' = trade_history
                 /\ last_reset_date' = today
       /\ (call.op # "check_order" /\ call'.op = "check_order") =>
              /\ trade_history' = trade_history
              /\ ~Stale => counters' = counters
       /\ RecordedStep => call.op = "check_order" /\ call.ret.is_pass
      ]_vars

\* A rejection on a day that already has trades: the counters stand as they were.
C2_Witness ==
    /\ Checked
    /\ ~call.ret.is_pass
    /\ ~call.stale
    /\ daily_trades > 0
    /\ daily_trades = call.trades_on_entry
    /\ trade_history # <<>>

\* The entries of the ledger made on the current date.
RecordedToday == Len(SelectSeq(trade_history, LAMBDA e : e.time = today))

\* C3: a check made when max_daily_trades orders are recorded for the day is
\* rejected, and with a caller that records each accepted order before it checks
\* the next, trades-today and the entries recorded on one date never exceed the cap.
C3_DailyCap ==
    /\ Checked /\ call.trades >= max_daily_trades => ~call.ret.is_pass
    /\ daily_trades <= max_daily_trades
    /\ RecordedToday <= max_daily_trades
    /\ ~Stale => RecordedToday = daily_trades

\* The day's count is full and the standing order is turned down by rule 2.
C3_Witness ==
    /\ Checked
    /\ ~call.stale
    /\ daily_trades = max_daily_trades
    /\ call.order = StandingOrder
    /\ call.ret.rule = 2

\* C4: a check made on a new date finds the counters at zero: it is not rejected
\* by the daily trade cap, whatever the count of the day before, and it leaves
\* the three counters at zero.
C4_ResetOnNewDate ==
    Checked /\ call.stale =>
        /\ call.trades = 0
        /\ call.ret.rule # 2
        /\ counters = <<0, 0, 0>>

\* The first check of a new day, made after a day whose count was full, passes.
C4_Witness ==
    /\ Checked
    /\ call.stale
    /\ call.trades_on_entry = max_daily_trades
    /\ call.order = StandingOrder
    /\ call.ret.is_pass

MarketCap(market) ==
    IF market = "HK" THEN max_single_amount_hk ELSE max_single_amount

\* C5: an order whose notional is above the cap of its market is rejected by
\* rule 1, whatever the account, the positions and the counters are, and the
\* reason shows the notional and the cap it was compared with.
C5_OverCapRejected ==
    Checked /\ Amount(call.order) > MarketCap(get_market_type(call.order.stock_code)) =>
        /\ ~call.ret.is_pass
        /\ call.ret.kind = "single_amount"
        /\ call.ret.shown[1] = Amount(call.order)
        /\ call.ret.shown[2] \in {max_single_amount, max_single_amount_hk}
        /\ call.ret.shown[1] > call.ret.shown[2]

\* Account {total 100000, cash 50000}, no positions, BUY 100 @ 1000 on a US ticker.
C5_Witness ==
    /\ Checked
    /\ call.order = [stock_code |-> TSLA, direction |-> "BUY", price |-> 1000, qty |-> 100]
    /\ call.account_info = Account(100000, 50000, 50000)
    /\ call.positions = [given |-> TRUE, list |-> <<>>]
    /\ call.ret = Reject(1, "single_amount", <<100000, 50000>>)

\* The cash check_order takes as available.
AvailableCash(a) == IF a.cash = 0 THEN a.avl_withdrawal_cash ELSE a.cash

CashShort ==
    /\ Checked
    /\ call.order.direction = "BUY"
    /\ call.account_info.given
    /\ AvailableCash(call.account_info) < Amount(call.order)

\* C6 as stated: a BUY whose notional is above the available cash is always
\* rejected with the insufficient-funds reason.
C6_Original ==
    CashShort => ~call.ret.is_pass /\ call.ret.kind = "insufficient_funds"

\* C6 amended: a BUY checked with an account whose available cash is below the
\* notional is always rejected; the reason is insufficient funds unless rule 1
\* or rule 2, which come first, reject it.
C6_CashShortRejected ==
    CashShort =>
        /\ ~call.ret.is_pass
        /\ call.ret.rule \in {1, 2, 3}
        /\ call.ret.rule = 3 <=>
              /\ ~RuleFails(1, call.order, call.account_info, call.positions, call.trades)
              /\ ~RuleFails(2, call.order, call.account_info, call.positions, call.trades)
        /\ call.ret.rule = 3 =>
              /\ call.ret.kind = "insufficient_funds"
              /\ call.ret.shown = <<Amount(call.order), AvailableCash(call.account_info)>>

\* A BUY within its cap, on a day with room, that the cash does not cover.
C6_Witness ==
    /\ CashShort
    /\ call.account_info.cash > 0
    /\ call.ret.kind = "insufficient_funds"

\* The market value held in one ticker.
RECURSIVE Holding(_, _)
Holding(list, stock_code) ==
    IF list = <<>> THEN 0
    ELSE (IF Head(list).code = stock_code THEN Head(list).market_val ELSE 0)
           + Holding(Tail(list), stock_code)

\* C7 as stated: an accepted BUY keeps the holding of its ticker plus the
\* notional within max_position_ratio of total assets, and all holdings plus
\* the notional within max_total_position of total assets.
C7_ExposureLimits ==
    (/\ Checked
     /\ call.ret.is_pass
     /\ call.order.direction = "BUY"
     /\ call.account_info.given
     /\ call.positions.given
     /\ call.account_info.total_assets > 0)
    => /\ 100 * (Holding(call.positions.list, call.order.stock_code) + Amount(call.order))
            <= max_position_ratio_pct * call.account_info.total_assets
       /\ 100 * (SumMarketVal(call.positions.list) + Amount(call.order))
            <= max_total_position_pct * call.account_info.total_assets

\* Some position of the list has the order's code and enough sellable quantity.
HasSellable(list, order) ==
    \E i \in 1..Len(list) :
        list[i].code = order.stock_code /\ CanSellQty(list[i]) >= order.qty

HasMatch(list, order) == \E i \in 1..Len(list) : list[i].code = order.stock_code

\* C8 as stated: a SELL is accepted only if a matching position with enough
\* sellable quantity exists, and with no matching position the reason is
\* 'no position'.
C8_Original ==
    Checked /\ call.order.direction = "SELL" =>
        /\ call.ret.is_pass =>
              call.positions.given /\ HasSellable(call.positions.list, call.order)
        /\ call.positions.given /\ ~HasMatch(call.positions.list, call.order) =>
              call.ret.kind = "no_position"

\* C8 amended: a SELL checked with a position list is accepted only if a
\* matching position with enough sellable quantity exists; when rules 1 and 2
\* pass, it is rejected with 'no position' without a matching position, with
\* 'insufficient sellable quantity' when the first matching position has less
\* than the requested quantity, and accepted otherwise.
C8_SellNeedsPosition ==
    Checked /\ call.order.direction = "SELL" /\ call.positions.given =>
        LET list == call.positions.list
            hits == {i \in 1..Len(list) : list[i].code = call.order.stock_code}
        IN
        /\ call.ret.is_pass => HasSellable(list, call.order)
        /\ (/\ ~RuleFails(1, call.order, call.account_info, call.positions, call.trades)
            /\ ~RuleFails(2, call.order, call.account_info, call.positions, call.trades)) =>
              /\ hits = {} => call.ret.kind = "no_position"
              /\ hits # {} /\ call.order.qty > CanSellQty(list[Min(hits)]) =>
                    call.ret.kind = "insufficient_qty"
              /\ hits # {} /\ call.order.qty <= CanSellQty(list[Min(hits)]) =>
                    call.ret.is_pass

\* A position with 50 sellable: the SELL of 50 is accepted.
C8_Witness ==
    /\ Checked
    /\ call.order.direction = "SELL"
    /\ call.order.qty = 50
    /\ call.positions.given
    /\ \E i \in 1..Len(call.positions.list) :
          /\ call.positions.list[i].code = call.order.stock_code
          /\ CanSellQty(call.positions.list[i]) = 50
    /\ call.ret.is_pass

\* C9: under any interleaving of the two callers, the orders accepted and
\* recorded on one date never exceed the daily trade cap.
C9_SerializedCap == RecordedToday <= max_daily_trades

(***************************************************************************)
(* The scheduler's error handling.                                         *)
(***************************************************************************)
\* The runs of the current pass of a loop thread in which a signal job's
\* provider fetch raised while an error callback was registered.
FetchRaised(t) ==
    {k \in 1..Len(loops[t].ran) :
        /\ loops[t].ran[k].kind = "signal"
        /\ loops[t].ran[k].fetch = "raise"
        /\ loops[t].ran[k].had_error_callback}

\* C10: when the provider fetch of a scheduled signal job raises, the error
\* callback is called exactly once, with that job's task name, nothing leaves
\* the job, and the pass does not end there: either the next job that was due
\* at the same tick has run or is being run, or the failed job was the last
\* one due.
C10_FetchErrorReportedOnce ==
    \A t \in LoopIds : \A k \in FetchRaised(t) :
        /\ Len(loops[t].ran[k].error_calls) = 1
        /\ loops[t].ran[k].error_calls[1].task_name =
               jobs[loops[t].ran[k].job].task_name
        /\ ~loops[t].ran[k].escaped
        /\ \/ k < Len(loops[t].ran)
           \/ k = Len(loops[t].polled)
           \/ loops[t].pc \in {"dispatch", "in_job"}

\* Two jobs were due at the same tick; the fetch of the first raised and was
\* reported, and the second, a different job, has run.
C10_Witness ==
    \E t \in LoopIds :
        /\ Len(loops[t].polled) = 2
        /\ Len(loops[t].ran) = 2
        /\ 1 \in FetchRaised(t)
        /\ loops[t].ran[1].error_calls =
               <<[task_name |-> jobs[loops[t].polled[1]].task_name,
                  msg |-> FetchErrorMsg]>>
        /\ loops[t].ran[2].job = loops[t].polled[2]
        /\ loops[t].polled[1] # loops[t].polled[2]
        /\ jobs[loops[t].polled[1]].next_run = jobs[loops[t].polled[2]].next_run

\* C11: whatever kind of job raises, the exception is caught where the job is
\* dispatched and never reaches the clock loop: no run of a job lets an
\* exception out, and no loop thread is ended by one.
C11_DispatchBoundaryCatches ==
    \A t \in LoopIds :
        /\ loops[t].pc # "dead"
        /\ \A k \in 1..Len(loops[t].ran) : ~loops[t].ran[k].escaped

\* C12: the signal callback is called for BUY and SELL signals only, never
\* for a HOLD signal.
C12_NoHoldDelivered ==
    \A t \in LoopIds : \A k \in 1..Len(loops[t].ran) :
        \A i \in 1..Len(loops[t].ran[k].signal_calls) :
            loops[t].ran[k].signal_calls[i].type \in {"BUY", "SELL"}

\* C16: stop() does not return while a job the clock loop has dispatched is
\* still executing: once stop() has returned (running is cleared), no loop
\* thread is inside a job body.
C16_StopWaitsForJob ==
    ~running => \A t \in LoopIds : loops[t].pc # "in_job"

\* C13: a job's body runs on a clock trigger only if its task is at that
\* moment in the task table and enabled.
C13_RunsOnlyIfPresentAndEnabled ==
    \A t \in LoopIds : \A k \in 1..Len(loops[t].ran) :
        loops[t].ran[k].body =>
            loops[t].ran[k].task_present /\ loops[t].ran[k].task_enabled

\* Job i is in the task table and the started scheduler has gone through its
\* trigger time without running it since.
JobDue(i) ==
    /\ running
    /\ i <= Len(jobs)
    /\ jobs[i].task_name \in DOMAIN tasks
    /\ ShouldRun(jobs[i])

\* C14: every job of the task table whose trigger time the started scheduler
\* goes through is eventually executed for that trigger.
C14_DueJobEventuallyRuns ==
    \A i \in 1..MaxJobs : JobDue(i) ~> ~JobDue(i)

\* What the clock trigger of the job in call would have done with the same
\* answers from the outside world.
ScheduledRun ==
    IF call.job.kind = "signal"
    THEN SignalJob(call.job, call.env, call.had_error_callback,
                   call.had_signal_callback, call.active)
    ELSE CustomJob("ok", call.active)

\* C15: every task of the table can be run manually, and the manual run makes
\* the same signal-callback and error-callback calls as the clock trigger of
\* the job does for the same fetch result and strategy output.
C15_ManualEqualsScheduled ==
    call.op = "run_task_now" =>
        /\ call.body
        /\ call.signal_calls = ScheduledRun.signal_calls
        /\ call.error_calls = ScheduledRun.error_calls

(***************************************************************************)
(* Properties of the price cache.                                          *)
(***************************************************************************)
\* A non-empty price series: bars with a date and the five numeric fields.
IsPriceSeries(df) ==
    /\ ~df.is_none
    /\ df.rows # <<>>
    /\ required_cols \subseteq SeqRange(df.columns)

\* A load that directly follows a save of the same code and range.
LoadedAfterSave == call.op = "load" /\ call.prev.op = "save"

\* C17: a save of a non-empty price series directly followed by a load of the
\* same code and range returns the series: the same columns in the same order
\* and the same rows, bar for bar.
C17_RoundTrip ==
    LoadedAfterSave /\ IsPriceSeries(call.prev.df) =>
        /\ ~call.ret.is_none
        /\ call.ret.columns = call.prev.df.columns
        /\ call.ret.rows = call.prev.df.rows

\* A two-day series whose dates were timestamps comes back with both bars.
C17_Witness ==
    /\ LoadedAfterSave
    /\ IsPriceSeries(call.prev.df)
    /\ call.prev.df.date_type = "datetime"
    /\ Len(call.prev.df.rows) = 2
    /\ call.stock_code = HK0700
    /\ ~call.ret.is_none
    /\ call.ret.rows = call.prev.df.rows

\* Some stored price series of the code has a range that covers the requested
\* one.
Covered(stock_code, start_date, end_date) ==
    \E k \in DOMAIN metadata :
        /\ metadata[k].stock_code = stock_code
        /\ metadata[k].start_date <= start_date
        /\ end_date <= metadata[k].end_date
        /\ required_cols \subseteq SeqRange(files[metadata[k].file_path].header)

\* C18: a lookup is a hit exactly when some stored entry of the ticker covers
\* the requested range.
C18_HitIffCovered ==
    call.op = "load" =>
        (~call.ret.is_none <=> Covered(call.stock_code, call.start_date, call.end_date))

\* The value a stored file holds for a date, as a set (empty when it has none).
ValuesAt(csv, date) == {csv.lines[i].value : i \in {j \in 1..Len(csv.lines) : csv.lines[j].date = date}}

\* C19: after a store for a ticker, every stored series of that ticker has
\* strictly increasing dates, and for every date of the stored frame it holds
\* the bar of this, the most recent, store.
C19_NewestBarPerDate ==
    (call.op = "save" /\ IsPriceSeries(call.df)) =>
        \A k \in DOMAIN metadata :
            metadata[k].stock_code = call.stock_code =>
                LET csv == files[metadata[k].file_path] IN
                /\ \A i \in 1..(Len(csv.lines) - 1) :
                      csv.lines[i].date < csv.lines[i + 1].date
                /\ \A i \in 1..Len(call.df.rows) :
                      ValuesAt(csv, call.df.rows[i].date) \subseteq {call.df.rows[i].value}

\* No caller is inside a cache method.
Quiescent == \A t \in Threads : thr[t].pc = "idle"

\* The bars of the last store a caller completed are in the cache: the entry
\* of a DataCache.save has its file, whole, and its metadata.
SaveKept(t) ==
    LET cache_path == get_cache_path(thr[t].stock_code, thr[t].start_date, thr[t].end_date)
        cache_key == CacheKey(thr[t].stock_code, thr[t].start_date, thr[t].end_date)
    IN  thr[t].op = "save" /\ Len(thr[t].df.rows) # 0 =>
            /\ cache_path \in DOMAIN files
            /\ \E df \in ConcFrames : Len(df.rows) # 0 /\ files[cache_path] = to_csv(df)
            /\ cache_key \in DOMAIN metadata

\* Every date of the last USDataCache.set_prices a caller completed is in the
\* ticker's file, and the metadata counts the rows of the file.
SetPricesKept(t) ==
    LET cache_file == get_cache_filename(thr[t].stock_code)
    IN  thr[t].op = "set_prices" /\ Len(thr[t].df.rows) # 0 =>
            /\ cache_file \in DOMAIN us_files
            /\ \A i \in 1..Len(thr[t].df.rows) :
                  ValuesAt(us_files[cache_file], thr[t].df.rows[i].date) # {}
            /\ Upper(thr[t].stock_code) \in DOMAIN us_metadata
            /\ us_metadata[Upper(thr[t].stock_code)].rows = Len(us_files[cache_file].lines)

\* C20: with the scheduled job and the on-demand call on the same ticker,
\* the cache ends as after some sequential order of their operations: once
\* both are back, the bars and the metadata entry of each one's last store
\* are in the cache, and no file is left without content.
C20_WritesSerialized ==
    Quiescent =>
        /\ \A t \in Threads : SaveKept(t) /\ SetPricesKept(t)
        /\ \A p \in DOMAIN files : files[p] # EmptyFile

(***************************************************************************)
(* Properties of the data router.                                          *)
(***************************************************************************)
Routed == call.op = "get_kline_data"

\* The adapter configured for a market.
AdapterOf(market) ==
    CASE market = "HK" -> "futu" [] market = "A" -> "tushare" [] OTHER -> "financial"

\* The collaborators a call went to, in order.
Went(c) == [i \in 1..Len(c.steps) |-> c.steps[i][1]]
Fetched(c) == \E i \in 1..Len(c.steps) : c.steps[i][2] = "fetch"
ReachedAdapter(c) == \E i \in 1..Len(c.steps) : c.steps[i][1] # "cache"

\* The price series the cache held for the request when the call began.
HeldBefore == required_cols \subseteq SeqRange(call.held.header)

\* C21: a request that is not forced goes to the cache first and, on a hit,
\* to nothing else, returning the cached series; a forced request does not go
\* to the cache for a lookup and goes to the adapter of the ticker's market.
C21_CacheBeforeProvider ==
    Routed /\ call.use_cache =>
        IF call.force_update
        THEN /\ \A i \in 1..Len(call.steps) : call.steps[i] # <<"cache", "load">>
             /\ call.steps # <<>>
             /\ call.steps[1] = <<AdapterOf(call.market), "init">>
        ELSE /\ call.steps[1] = <<"cache", "load">>
             /\ HeldBefore =>
                   /\ call.steps = <<<<"cache", "load">>>>
                   /\ call.ret.kind = "frame"
                   /\ call.ret.df.rows = call.held.lines

\* A hit on bare digits, served from the entry of the full Hong Kong code.
C21_Witness ==
    /\ Routed /\ call.use_cache /\ ~call.force_update /\ HeldBefore
    /\ call.stock_code = Bare0700
    /\ call.steps = <<<<"cache", "load">>>>

\* C22: a series fetched from the provider is in the cache when the call
\* returns, and the next request for the same ticker and range that is not
\* forced is answered from the cache alone, with the columns and rows the
\* first request returned.
C22_FetchedThenCached ==
    Routed /\ call.use_cache =>
        /\ Fetched(call) /\ call.ret.kind = "frame" =>
              LET cache_path == get_cache_path(call.code, call.start_date, call.end_date)
              IN  /\ cache_path \in DOMAIN files
                  /\ files[cache_path].lines = call.ret.df.rows
                  /\ CacheKey(call.code, call.start_date, call.end_date) \in DOMAIN metadata
        /\ (/\ ~call.force_update
            /\ call.prev.op = "get_kline_data"
            /\ Fetched(call.prev)
            /\ call.prev.ret.kind = "frame") =>
              /\ call.steps = <<<<"cache", "load">>>>
              /\ call.ret.kind = "frame"
              /\ call.ret.df.columns = call.prev.ret.df.columns
              /\ call.ret.df.rows = call.prev.ret.df.rows

\* An A-share series, fetched with timestamps, is served again from the cache.
C22_Witness ==
    /\ Routed /\ call.use_cache /\ ~call.force_update
    /\ call.market = "A"
    /\ call.prev.op = "get_kline_data" /\ Fetched(call.prev)
    /\ call.prev.ret.kind = "frame"
    /\ call.prev.ret.df.date_type = "datetime"
    /\ call.steps = <<<<"cache", "load">>>>
    /\ call.ret.df.rows = call.prev.ret.df.rows

\* C23: a call goes to no adapter but the one of the ticker's market, and
\* when that adapter fails the call returns the failure value and leaves the
\* cache as it was.
C23_OwnAdapterOrFailure ==
    Routed =>
        /\ \A i \in 1..Len(call.steps) :
              call.steps[i][1] \in {"cache", AdapterOf(call.market)}
        /\ ReachedAdapter(call) /\ call.ret.kind # "frame" =>
              /\ call.ret.kind = "none"
              /\ ~call.cache_written

\* C24: when the provider answers with no rows, the caller gets the failure
\* value, not a series, and nothing is stored.
C24_EmptyIsFailure ==
    Routed /\ Fetched(call) /\ call.env.fetch = "empty" =>
        /\ call.ret.kind = "none"
        /\ ~call.cache_written

\* C25: when the adapter or its initialisation raises for a network reason,
\* no exception leaves get_kline_data.
C25_NoExceptionEscapes ==
    Routed /\ ReachedAdapter(call) /\ (call.env.fetch = "raise" \/ call.env.init = "fail") =>
        call.ret.kind # "raise"

\* C26: the market is decided by the string alone, in this order: the
\* prefix HK. gives HK; else four or five digits give HK; else six digits
\* give A (mainland China); anything else gives US.  Blanks around the
\* string do not count, and every string gets one of the three markets.
C26_ClassificationPrecedence ==
    call.op = "classify" =>
        LET code == Strip(call.stock_code)
            digits == code # <<>> /\ \A i \in 1..Len(code) : code[i] \in Digits
            prefixed == Len(code) >= 3 /\ SubSeq(code, 1, 3) = <<"H", "K", ".">>
        IN  /\ call.market_given \in {"US", "HK", "A"}
            /\ prefixed => call.market_given = "HK"
            /\ ~prefixed /\ digits /\ Len(code) \in {4, 5} => call.market_given = "HK"
            /\ ~prefixed /\ digits /\ Len(code) = 6 => call.market_given = "A"
            /\ ~prefixed /\ ~(digits /\ Len(code) \in {4, 5, 6}) => call.market_given = "US"

\* Six digits between blanks are classified as mainland China.
C26_Witness ==
    /\ call.op = "classify"
    /\ call.stock_code = <<" ", "0", "0", "7", "0", "0", "7", " ">>
    /\ call.market_given = "A"

\* C27: the canonical form of a ticker has the market of the ticker, and
\* is its own canonical form.
C27_CanonicalFixedPoint ==
    call.op = "classify" =>
        /\ call.market = call.market_given
        /\ get_market_type(call.code) = call.market_given
        /\ CanonicalCode(call.code) = call.code

\* Four digits between blanks become the five-digit Hong Kong code.
C27_Witness ==
    /\ call.op = "classify"
    /\ call.stock_code = <<" ", "7", "0", "0", "7", " ">>
    /\ call.code = <<"H", "K", ".", "0", "7", "0", "0", "7">>
    /\ call.market = "HK"

(***************************************************************************)
(* Properties of the position sizer.                                       *)
(***************************************************************************)
\* A sizing call as the strategy makes it: the win rate nudged by the signal.
Sized == call.op = "calculate_position" /\ call.adjust_for_signal

\* C28: for every signal strength and every statistics, the position
\* calculate_position returns is a fraction between min_position and
\* max_position.
C28_PositionWithinLimits ==
    Sized /\ RLeq(kelly.min_position, kelly.max_position) =>
        /\ call.ret.kind = "frame"
        /\ RLeq(kelly.min_position, call.ret.df)
        /\ RLeq(call.ret.df, kelly.max_position)

\* After updated statistics, a strong signal is sized strictly inside the
\* limits.
C28_Witness ==
    /\ Sized
    /\ kelly.updated /\ Len(kelly.trade_history) >= 5
    /\ call.signal_strength = ROne
    /\ call.ret.kind = "frame"
    /\ RLess(kelly.min_position, call.ret.df)
    /\ RLess(call.ret.df, kelly.max_position)

\* The Kelly value of the statistics at the nudged win rate is negative:
\* p * b < q with b = avg_win / avg_loss.
KellyNegative ==
    LET p == adjust_win_rate(kelly, call.signal_strength)
    IN  /\ RLess(RZero, kelly.avg_loss)
        /\ RLess(RZero, kelly.avg_win)
        /\ RLess(RMul(p, kelly.avg_win), RMul(RSub(ROne, p), kelly.avg_loss))

\* C29: the position returned is never negative, and it is 0 whenever the
\* Kelly value is negative, whatever min_position and max_position are.
C29_NegativeKellyGivesZero ==
    Sized =>
        /\ call.ret.kind = "frame" => RLeq(RZero, call.ret.df)
        /\ KellyNegative => call.ret = GotFrame(RZero)

\* The three statistics of a calculator.
StatsOf(k) == <<k.win_rate, k.avg_win, k.avg_loss>>

\* C30: recording an outcome appends it to the history; with fewer than
\* five outcomes on record the statistics stay as they were, and from the
\* fifth on they are the smoothing of the old ones toward those of the
\* trailing window.
C30_RecordRecomputes ==
    call.op = "add_trade" =>
        /\ kelly.trade_history =
              Append(call.before.trade_history,
                     [profit |-> call.profit, is_win |-> RLess(RZero, call.profit)])
        /\ StatsOf(kelly) = StatsOf(UpdateStatistics([call.before EXCEPT !.trade_history =
                                                         kelly.trade_history], 30))

(***************************************************************************)
(* The per-order cap and the market classifier.                            *)
(***************************************************************************)
\* C40: rule 1 compares the notional with the cap of the market that
\* get_market_type gives the ticker: an order is rejected by rule 1 exactly
\* when its notional is above that cap.
C40_CapOfClassifiedMarket ==
    Checked =>
        (call.ret.kind = "single_amount"
            <=> Amount(call.order) > MarketCap(get_market_type(call.order.stock_code)))

(***************************************************************************)
(* Properties of the scheduler's threads and of its two tables.            *)
(***************************************************************************)
\* The threads of run_schedule that are alive.
AliveLoops == {t \in DOMAIN loops : loops[t].pc \notin {"none", "dead"}}

\* C37: whatever start() and stop() calls were made, at most one thread is
\* in the loop of run_schedule.
C37_OneLoopThread == Cardinality(AliveLoops) <= 1

\* The jobs registered with the clock under a task name.
JobsNamed(task_name) == {i \in 1..Len(jobs) : jobs[i].task_name = task_name}

\* C39: after any sequence of add operations every name of the task table
\* has exactly one job registered with the clock, and every job belongs to a
\* name of the table.
C39_OneJobPerTask ==
    /\ \A task_name \in DOMAIN tasks : Cardinality(JobsNamed(task_name)) = 1
    /\ \A i \in 1..Len(jobs) : jobs[i].task_name \in DOMAIN tasks

\* C38: every call a signal job makes to the signal callback carries a
\* signal of the strategy the job was added with.
C38_OwnStrategyOnly ==
    \A t \in DOMAIN loops : \A r \in 1..Len(loops[t].ran) :
        LET run == loops[t].ran[r]
        IN  \A k \in 1..Len(run.signal_calls) :
                run.signal_calls[k].strategy = jobs[run.job].strategy

(***************************************************************************)
(* Properties of strategy activation and of the strategies.                *)
(***************************************************************************)
\* Parameters a strategy cannot evaluate with: not a mapping, or a window
\* that is not a number.
Malformed(params) ==
    \/ params.kind = "list"
    \/ params.kind = "dict" /\ params.tsf_period.type # "int"

\* C32: activating an unknown strategy name or malformed parameters fails
\* in activate_strategy, and a failed activation leaves the active
\* strategies as they were.
C32_ActivationFailsFast ==
    call.op = "activate_strategy" =>
        /\ (call.strategy_name \notin strategy_classes \/ Malformed(call.params))
              => call.ret.kind = "raise"
        /\ call.ret.kind = "raise" => active_strategies = call.before

\* An analyze call of the strategy of the name has returned.
Analysed(name) == call.op = "analyze" /\ call.params.name = name

\* The bars a strategy needs: max(S, L) for the trend regression, the slow
\* span and the signal span for MACD, the window and one bar for RSI.
MinimumBars(params) ==
    IF params.name = "TSF-LSMA" THEN IntMax(params.tsf_period, params.lsma_period)
    ELSE IF params.name = "MACD" THEN params.slow_period + params.signal_period
    ELSE params.period + 1

\* C31: analyze on a series with fewer bars than the strategy needs returns
\* None: no signal and no exception.
C31_ShortSeriesGivesNothing ==
    call.op = "analyze" /\ Len(call.closes) < MinimumBars(call.params) =>
        call.ret = NoSignal

\* The trend regression with S = 9 and L = 20 on 19 rising bars.
C31_Witness ==
    /\ Analysed("TSF-LSMA")
    /\ call.params.lsma_period = 20
    /\ call.closes = Ramp(19, 1, 1, 0)
    /\ call.ret = NoSignal

\* The thresholds the forecast is compared with: absolute, or a percentage
\* of the long fit.
BuyThreshold(params, lsma) ==
    IF params.use_percent THEN RDiv(RMul(lsma, params.buy_threshold_pct), Rat(100, 1))
    ELSE params.buy_threshold
SellThreshold(params, lsma) ==
    IF params.use_percent THEN RDiv(RMul(lsma, params.sell_threshold_pct), Rat(100, 1))
    ELSE params.sell_threshold

\* Every bar is the bar before plus step.
Straight(closes, step) == \A i \in 2..Len(closes) : closes[i] - closes[i - 1] = step

\* C33: the trend regression returns BUY when the short forecast is above
\* the long fit by more than the buy threshold, SELL when it is below it by
\* more than the sell threshold, HOLD otherwise; on 20 bars that rise by 1 a
\* bar, with S = 9, L = 20 and the absolute threshold 0.5, it returns BUY
\* with the last close as current price.
C33_TrendRegressionRule ==
    Analysed("TSF-LSMA") /\ call.ret.kind = "signal" =>
        LET lsma == LSMAValue(call.closes, call.params.lsma_period)
            diff == RSub(TSFValue(call.closes, call.params.tsf_period), lsma)
            above == RLess(BuyThreshold(call.params, lsma), diff)
            below == RLess(diff, RSub(RZero, SellThreshold(call.params, lsma)))
        IN  /\ call.ret.type = (IF above THEN "BUY" ELSE IF below THEN "SELL" ELSE "HOLD")
            /\ (/\ Len(call.closes) = 20 /\ Straight(call.closes, 1)
                /\ call.params.tsf_period = 9 /\ call.params.lsma_period = 20
                /\ ~call.params.use_percent)
                  => /\ call.ret.type = "BUY"
                     /\ call.ret.current_price = call.closes[20]

\* 20 bars 101..120, S = 9, L = 20, absolute thresholds: BUY at 120.
C33_Witness ==
    /\ Analysed("TSF-LSMA")
    /\ call.closes = Ramp(20, 1, 1, 0)
    /\ ~call.params.use_percent /\ call.params.lsma_period = 20
    /\ call.ret.kind = "signal" /\ call.ret.type = "BUY"
    /\ call.ret.current_price = 120

\* The difference line minus the signal line at the last bar of a series.
HistogramAt(params, closes) ==
    Macd(closes, params.fast_period, params.slow_period,
         params.signal_period).histogram[Len(closes)]

\* The series without its last bar.
Front(closes) == SubSeq(closes, 1, Len(closes) - 1)

\* C34: MACD returns BUY only when the difference line is above the signal
\* line at the last bar and was not above it at the bar before, and SELL
\* only when it is below and was not below at the bar before.
C34_SignalOnlyOnCrossing ==
    Analysed("MACD") /\ call.ret.kind = "signal" =>
        LET now == HistogramAt(call.params, call.closes)
            before == HistogramAt(call.params, Front(call.closes))
        IN  /\ call.ret.type = "BUY" => RLess(RZero, now) /\ RLeq(before, RZero)
            /\ call.ret.type = "SELL" => RLess(now, RZero) /\ RLeq(RZero, before)

\* The difference line above the signal line for the second bar running:
\* HOLD.
C34_Witness ==
    /\ Analysed("MACD") /\ call.ret.kind = "signal"
    /\ RLess(RZero, HistogramAt(call.params, call.closes))
    /\ RLess(RZero, HistogramAt(call.params, Front(call.closes)))
    /\ call.ret.type = "HOLD"

(***************************************************************************)
(* Properties of the composite strategy.                                   *)
(***************************************************************************)
\* next() has run on a bar and blended the sub-scores.
Blended == call.op = "next" /\ call.combined # NoCombined

\* C35: the blended magnitude is in [0, 1]; flat, the strategy enters when
\* the magnitude is above 0.5; in a position, it exits when the magnitude is
\* below 0.3.
C35_EnterAndExitThresholds ==
    Blended =>
        /\ RLeq(RZero, call.combined.magnitude) /\ RLeq(call.combined.magnitude, ROne)
        /\ ~call.before.position /\ RLess(Rat(5, 10), call.combined.magnitude)
              => strategy.order = "buy"
        /\ call.before.position /\ RLess(call.combined.magnitude, Rat(3, 10))
              => strategy.order = "close"

\* The strategy computes the benchmark's RSI: relative strength is switched
\* on and the benchmark feed was given.
BenchmarkInUse(s) == s.use_relative_strength /\ s.spy_available

\* C36: in a position, on a bar where the benchmark's RSI is below the
\* oversold level of 35, next() closes the position, whatever the other
\* indicators of the bar are.
C36_DefensiveExit ==
    /\ call.op = "next" /\ call.before.position /\ BenchmarkInUse(call.before)
       /\ RLess(call.bar.spy_rsi, Rat(35, 1))
          => strategy.order = "close" /\ call.outcome = "defensive"
    /\ call.op = "notify_order" /\ call.before.order = "close" /\ call.status = "Completed"
          => ~strategy.position

\* In a position, the benchmark at 30 and every indicator of the stock at
\* its strongest: the position is closed.
C36_Witness ==
    /\ call.op = "next" /\ call.before.position /\ BenchmarkInUse(call.before)
    /\ call.bar.spy_rsi = Rat(30, 1)
    /\ call.bar.rsi = Rat(100, 1) /\ call.bar.macd_diff = Rat(10, 1)
    /\ call.bar.adx = Rat(50, 1)
    /\ strategy.order = "close"

=============================================================================
